---- MODULE Spec2Model ----
(***************************************************************************)
(* IndieAuth server-side request validation (package indieauth):          *)
(* Server.ParseAuthorization, Server.ValidateTokenExchange, the PKCE      *)
(* challenge functions and the profile-URL / client-identifier            *)
(* validators.                                                            *)
(*                                                                         *)
(* Representation of Go values.                                            *)
(*  - A string is the sequence of its lexical elements.  In a URL every   *)
(*    punctuation character is one element and a maximal run of letters   *)
(*    and digits is one element ("example", "8443"): every decision of    *)
(*    net/url and net.ParseIP depends only on the punctuation and on the   *)
(*    class of a run (all digits, first character, numeric value).  PKCE  *)
(*    strings are written one character per element, so that Len is the    *)
(*    Go len().  Two Go strings are equal iff their sequences are equal.   *)
(*  - A pointer or an error that may be nil is a sequence of length at     *)
(*    most one: <<>> is nil, <<v>> is a value.                            *)
(*  - An error is [is, msg]: is = the set of sentinel errors for which     *)
(*    errors.Is(err, sentinel) is true, msg = the text of the innermost   *)
(*    error created at the return site.                                    *)
(***************************************************************************)
EXTENDS Integers, Sequences, FiniteSets, TLC

VARIABLES
    pc,      \* position of the caller: "call" before the operation, "done" after
    op,      \* the operation the caller invokes
    srv,     \* the Server: [RequirePKCE]
    arg,     \* the inbound request / the argument of the operation
    stored,  \* the AuthenticationRequest the caller hands to ValidateTokenExchange
    ret      \* what the operation returned

vars == <<pc, op, srv, arg, stored, ret>>

(***************************************************************************)
(* Generic string helpers (package strings).                              *)
(***************************************************************************)
Index(s, c) ==
    IF \E i \in 1..Len(s) : s[i] = c
    THEN CHOOSE i \in 1..Len(s) : s[i] = c /\ \A j \in 1..(i - 1) : s[j] # c
    ELSE 0

LastIndex(s, c) ==
    IF \E i \in 1..Len(s) : s[i] = c
    THEN CHOOSE i \in 1..Len(s) : s[i] = c /\ \A j \in (i + 1)..Len(s) : s[j] # c
    ELSE 0

Contains(s, c) == \E i \in 1..Len(s) : s[i] = c

Count(s, c) == Cardinality({i \in 1..Len(s) : s[i] = c})

From(s, i) == SubSeq(s, i, Len(s))

Upto(s, i) == SubSeq(s, 1, i)

HasPrefix(s, p) == Len(s) >= Len(p) /\ Upto(s, Len(p)) = p

\* strings.Cut(s, c): <<before, after>>; after is empty when c does not occur.
CutBefore(s, c) == IF Index(s, c) = 0 THEN s ELSE Upto(s, Index(s, c) - 1)

CutAfter(s, c) == IF Index(s, c) = 0 THEN <<>> ELSE From(s, Index(s, c) + 1)

Repeat(c, n) == [i \in 1..n |-> c]

\* strings.Split(s, sep): every separator splits, empty pieces are kept.
RECURSIVE Split(_, _)
Split(s, sep) ==
    IF Index(s, sep) = 0 THEN <<s>>
    ELSE <<CutBefore(s, sep)>> \o Split(From(s, Index(s, sep) + 1), sep)

(***************************************************************************)
(* Character classes of the elements.                                      *)
(***************************************************************************)
DigitRuns == {"0", "1", "127", "172", "28", "92", "51", "256", "8443", "5050"}

LetterRuns ==
    {"https", "http", "HTTPS", "mailto", "example", "com", "org", "localhost",
     "callback", "me", "user", "pass", "foo", "bar", "this", "ain", "t", "a", "URL",
     "code", "state", "other", "iss", "abc", "auth", "token", "metadata", "html",
     "head", "get"}

Punct == {":", "/", "#", "?", "@", "[", "]", ".", " ", "'", "-", "+"}

IsAlnum(t) == t \in DigitRuns \cup LetterRuns

IsDigits(t) == t \in DigitRuns

\* strings.ToLower on one element.
ToLowerElem(t) == IF t = "HTTPS" THEN "https" ELSE IF t = "URL" THEN "url" ELSE t

ToLower(s) == [i \in 1..Len(s) |-> ToLowerElem(s[i])]

\* strconv value of a run of digits.
DecValue(t) ==
    CASE t = "0" -> 0 [] t = "1" -> 1 [] t = "127" -> 127 [] t = "172" -> 172
      [] t = "28" -> 28 [] t = "92" -> 92 [] t = "51" -> 51 [] t = "256" -> 256
      [] t = "8443" -> 8443 [] t = "5050" -> 5050 [] OTHER -> 0

(***************************************************************************)
(* net/url as the package uses it: url.Parse, URL.Port, Userinfo.String    *)
(* and URL.String.  A percent-escape "%XX" is one element; BadEscape       *)
(* stands for a "%" that two hexadecimal digits do not follow.  Control    *)
(* characters and IPv6 zones are outside the alphabet, so the branches    *)
(* that handle them never run.                                             *)
(***************************************************************************)
\* the escapes of the punctuation of the alphabet.
Escapes ==
    {<<" ", "%20">>, <<"'", "%27">>, <<"[", "%5B">>, <<"]", "%5D">>, <<"@", "%40">>,
     <<":", "%3A">>, <<"#", "%23">>, <<"/", "%2F">>, <<"?", "%3F">>}

BadEscape == "%zz"

EscapeElems == {e[2] : e \in Escapes}

\* "%" followed by the two hexadecimal digits of c.
pctEncode(c) == IF \E e \in Escapes : e[1] = c THEN (CHOOSE e \in Escapes : e[1] = c)[2] ELSE c

\* the character a "%XX" stands for.
pctDecode(t) == IF t \in EscapeElems THEN (CHOOSE e \in Escapes : e[2] = t)[1] ELSE t

\* shouldEscape(c, mode) for the modes "host", "path", "userPassword", "fragment".
shouldEscape(c, mode) ==
    IF IsAlnum(c) THEN FALSE
    ELSE IF mode = "host" /\ c \in {"'", "+", "=", ":", "[", "]"} THEN FALSE
    ELSE IF c \in {"-", "."} THEN FALSE
    ELSE IF c \in {"+", "/", ":", "=", "?", "@"}
    THEN CASE mode = "path" -> c = "?"
           [] mode = "userPassword" -> c \in {"@", "/", "?", ":"}
           [] mode = "fragment" -> FALSE
           [] OTHER -> TRUE
    ELSE TRUE

\* escape(s, mode): every byte that should be escaped becomes "%XX".
escape(s, mode) ==
    [i \in 1..Len(s) |-> IF shouldEscape(s[i], mode) THEN pctEncode(s[i]) ELSE s[i]]

\* unescape(s, mode) fails: a malformed escape; in a host, any escape of an
\* ASCII byte and any byte that should have been escaped.
unescapeFails(s, mode) ==
    \E i \in 1..Len(s) :
        \/ s[i] = BadEscape
        \/ mode = "host" /\ (s[i] \in EscapeElems \/ shouldEscape(s[i], "host"))

\* unescape(s, mode) when it does not fail ("+" is a space only in queries).
unescape(s) == [i \in 1..Len(s) |-> pctDecode(s[i])]

\* validEncoded(s, mode): s may stand as the escaped form.
validEncoded(s, mode) ==
    \A i \in 1..Len(s) :
        \/ s[i] \in {"'", "+", "=", ":", "@", "[", "]", BadEscape} \cup EscapeElems
        \/ ~shouldEscape(s[i], mode)

NoURL ==
    [Scheme |-> <<>>, Opaque |-> <<>>, User |-> <<>>, Host |-> <<>>,
     Path |-> <<>>, RawPath |-> <<>>, RawQuery |-> <<>>, ForceQuery |-> FALSE,
     Fragment |-> <<>>, RawFragment |-> <<>>]

ParseFail(msg) == [err |-> <<msg>>, url |-> NoURL]

\* validOptionalPort: "" or ":" followed by digits only.
validOptionalPort(port) ==
    \/ port = <<>>
    \/ /\ port[1] = ":"
       /\ \A i \in 2..Len(port) : IsDigits(port[i])

\* validUserinfo: letters, digits and -._:~!$&'()*+,;=%@ only.
validUserinfo(s) ==
    \A i \in 1..Len(s) :
        \/ IsAlnum(s[i])
        \/ s[i] \in {"-", ".", ":", "'", "+", "=", "@", BadEscape} \cup EscapeElems

\* unescape(host, encodeHost) succeeds.
validHostBytes(s) == ~unescapeFails(s, "host")

parseHost(host) ==
    IF HasPrefix(host, <<"[">>)
    THEN IF LastIndex(host, "]") = 0
         THEN [err |-> <<"missing ']' in host">>, host |-> <<>>]
         ELSE IF ~validOptionalPort(From(host, LastIndex(host, "]") + 1))
         THEN [err |-> <<"invalid port after host">>, host |-> <<>>]
         ELSE IF ~validHostBytes(host)
         THEN [err |-> <<"invalid character in host name">>, host |-> <<>>]
         ELSE [err |-> <<>>, host |-> host]
    ELSE IF LastIndex(host, ":") # 0 /\ ~validOptionalPort(From(host, LastIndex(host, ":")))
    THEN [err |-> <<"invalid port after host">>, host |-> <<>>]
    ELSE IF ~validHostBytes(host)
    THEN [err |-> <<"invalid character in host name">>, host |-> <<>>]
    ELSE [err |-> <<>>, host |-> host]

\* the Userinfo of the text before "@": User(u) or UserPassword(u, p).
userinfoOf(userinfo) ==
    IF ~Contains(userinfo, ":")
    THEN [Username |-> unescape(userinfo), Password |-> <<>>, PasswordSet |-> FALSE]
    ELSE [Username |-> unescape(CutBefore(userinfo, ":")),
          Password |-> unescape(CutAfter(userinfo, ":")), PasswordSet |-> TRUE]

\* parseAuthority once the host is parsed: i is the index of the last "@"
\* (0 when there is none), h the result of parseHost on what follows it.
parseUser(authority, i, h) ==
    IF h.err # <<>>
    THEN [err |-> h.err, user |-> <<>>, host |-> <<>>]
    ELSE IF i = 0
    THEN [err |-> <<>>, user |-> <<>>, host |-> h.host]
    ELSE IF ~validUserinfo(Upto(authority, i - 1))
    THEN [err |-> <<"net/url: invalid userinfo">>, user |-> <<>>, host |-> <<>>]
    ELSE IF unescapeFails(Upto(authority, i - 1), "userPassword")
    THEN [err |-> <<"invalid URL escape">>, user |-> <<>>, host |-> <<>>]
    ELSE [err |-> <<>>, host |-> h.host, user |-> <<userinfoOf(Upto(authority, i - 1))>>]

parseAuthority(authority) ==
    parseUser(authority, LastIndex(authority, "@"),
              parseHost(From(authority, LastIndex(authority, "@") + 1)))

\* getScheme once the first character that cannot belong to a scheme is
\* found at index k (0 when there is none): [err, scheme, rest].
schemeUpTo(rawURL, k) ==
    IF k = 0 \/ rawURL[k] # ":"
    THEN [err |-> <<>>, scheme |-> <<>>, rest |-> rawURL]
    ELSE IF k = 1
    THEN [err |-> <<"missing protocol scheme">>, scheme |-> <<>>, rest |-> <<>>]
    ELSE [err |-> <<>>, scheme |-> Upto(rawURL, k - 1), rest |-> From(rawURL, k + 1)]

\* the least element of a set of indices, 0 for the empty set.
firstOf(stops) == IF stops = {} THEN 0 ELSE CHOOSE i \in stops : \A j \in stops : i <= j

\* getScheme: letters, and after the first character digits, "+", "-" and
\* ".", up to a ":".
getScheme(rawURL) ==
    schemeUpTo(rawURL,
               firstOf({i \in 1..Len(rawURL) :
                          ~(\/ rawURL[i] \in LetterRuns
                            \/ i > 1 /\ (IsDigits(rawURL[i]) \/ rawURL[i] \in {"+", "-", "."}))}))

\* (*URL).setPath(p): Path is p unescaped; RawPath is p when p is not the
\* default escaping of Path.
setPath(url, p) ==
    IF unescapeFails(p, "path")
    THEN ParseFail("invalid URL escape")
    ELSE [err |-> <<>>,
          url |-> [url EXCEPT !.Path = unescape(p),
                              !.RawPath = IF escape(unescape(p), "path") = p
                                          THEN <<>> ELSE p]]

\* the end of parse: the authority has been parsed, path is what follows it.
parseSetAuthority(base, auth, path) ==
    IF auth.err # <<>>
    THEN ParseFail(auth.err[1])
    ELSE setPath([base EXCEPT !.User = auth.user, !.Host = auth.host], path)

\* parse after "//": the authority runs up to the next "/", the path from it on.
parseAfterSlashes(base, s) ==
    parseSetAuthority(base, parseAuthority(CutBefore(s, "/")),
                      IF Index(s, "/") = 0 THEN <<>> ELSE From(s, Index(s, "/")))

\* parse once scheme and query are split off (base holds them): opaque
\* URL, authority and path, or path alone.
parseHier(base, rest) ==
    IF ~HasPrefix(rest, <<"/">>) /\ base.Scheme # <<>>
    THEN [err |-> <<>>, url |-> [base EXCEPT !.Opaque = rest]]
    ELSE IF ~HasPrefix(rest, <<"/">>) /\ Contains(CutBefore(rest, "/"), ":")
    THEN ParseFail("first path segment in URL cannot contain colon")
    ELSE IF /\ HasPrefix(rest, <<"/", "/">>)
            /\ base.Scheme # <<>> \/ ~HasPrefix(rest, <<"/", "/", "/">>)
    THEN parseAfterSlashes(base, From(rest, 3))
    ELSE setPath(base, rest)

\* parse once getScheme has run: force tells whether the rest ends in a lone
\* "?" (ForceQuery); otherwise the query is what follows the first "?".
parseQuery(sch, force) ==
    IF sch.err # <<>>
    THEN ParseFail(sch.err[1])
    ELSE parseHier([NoURL EXCEPT !.Scheme = ToLower(sch.scheme),
                                 !.RawQuery = IF force THEN <<>> ELSE CutAfter(sch.rest, "?"),
                                 !.ForceQuery = force],
                   IF force THEN Upto(sch.rest, Len(sch.rest) - 1)
                   ELSE CutBefore(sch.rest, "?"))

\* strings.HasSuffix(rest, "?") && strings.Count(rest, "?") == 1
endsInLoneQuestionMark(rest) ==
    rest # <<>> /\ rest[Len(rest)] = "?" /\ Count(rest, "?") = 1

\* parse on the result sch of getScheme.
parseFromScheme(sch) == parseQuery(sch, endsInLoneQuestionMark(sch.rest))

\* parse(rawURL, viaRequest = false), after the fragment has been cut off.
parse(rawURL) == parseFromScheme(getScheme(rawURL))

\* (*URL).setFragment(f), as setPath.
setFragment(url, f) ==
    IF unescapeFails(f, "fragment")
    THEN ParseFail("invalid URL escape")
    ELSE [err |-> <<>>,
          url |-> [url EXCEPT !.Fragment = unescape(f),
                              !.RawFragment = IF escape(unescape(f), "fragment") = f
                                              THEN <<>> ELSE f]]

\* the end of url.Parse: p is what parse returned, frag the text after "#".
parseSetFragment(p, frag) ==
    IF p.err # <<>> \/ frag = <<>> THEN p ELSE setFragment(p.url, frag)

\* url.Parse(rawURL): cut off "#frag", parse the rest, set the fragment.
Parse(rawURL) == parseSetFragment(parse(CutBefore(rawURL, "#")), CutAfter(rawURL, "#"))

\* (*URL).Port(): the part of Host after the last colon when it is a valid port.
Port(url) ==
    LET colon == LastIndex(url.Host, ":")
    IN  IF colon # 0 /\ validOptionalPort(From(url.Host, colon))
        THEN From(url.Host, colon + 1)
        ELSE <<>>

\* (*Userinfo).String(): "" for nil, else the escaped username[:password].
UserString(user) ==
    IF user = <<>> THEN <<>>
    ELSE escape(user[1].Username, "userPassword")
             \o (IF user[1].PasswordSet
                 THEN <<":">> \o escape(user[1].Password, "userPassword")
                 ELSE <<>>)

\* EscapedPath / EscapedFragment: raw when it is a valid encoding of the
\* decoded text, else the default escaping of the decoded text.
escaped(text, raw, mode) ==
    IF raw # <<>> /\ validEncoded(raw, mode) /\ ~unescapeFails(raw, mode) /\ unescape(raw) = text
    THEN raw
    ELSE escape(text, mode)

EscapedPath(url) == escaped(url.Path, url.RawPath, "path")

EscapedFragment(url) == escaped(url.Fragment, url.RawFragment, "fragment")

\* the part of (*URL).String() between scheme and query, for a URL that is
\* not opaque; path is EscapedPath().
hierString(url, path) ==
    (IF url.Scheme # <<>> \/ url.Host # <<>> \/ url.User # <<>>
     THEN (IF url.Host # <<>> \/ url.Path # <<>> \/ url.User # <<>>
           THEN <<"/", "/">> ELSE <<>>)
          \o (IF url.User # <<>> THEN UserString(url.User) \o <<"@">> ELSE <<>>)
          \o escape(url.Host, "host")
     ELSE <<>>)
    \o (IF path # <<>> /\ path[1] # "/" /\ url.Host # <<>> THEN <<"/">> ELSE <<>>)
    \o (IF /\ url.Scheme = <<>> /\ url.Host = <<>> /\ url.User = <<>>
           /\ Contains(CutBefore(path, "/"), ":")
        THEN <<".", "/">> ELSE <<>>)
    \o path

\* (*URL).String().  parse sets OmitHost only when what follows the scheme
\* does not begin with "//"; no URL the package prints is of that form.
String(url) ==
    (IF url.Scheme # <<>> THEN url.Scheme \o <<":">> ELSE <<>>)
    \o (IF url.Opaque # <<>> THEN url.Opaque ELSE hierString(url, EscapedPath(url)))
    \o (IF url.ForceQuery \/ url.RawQuery # <<>> THEN <<"?">> \o url.RawQuery ELSE <<>>)
    \o (IF url.Fragment # <<>> THEN <<"#">> \o EscapedFragment(url) ELSE <<>>)

(***************************************************************************)
(* net.ParseIP and IP.IsLoopback.  An address is <<>> (nil) or             *)
(* <<[bits, f]>>: f holds the 4 octets of an IPv4 address or the 8 groups  *)
(* of an IPv6 address.  IPv6 text with an embedded dotted quad or a zone   *)
(* is not among the inputs of the model.                                   *)
(***************************************************************************)
HexRuns == DigitRuns \cup {"a"}

\* value of a run of hexadecimal digits.
HexValue(t) ==
    CASE t = "0" -> 0 [] t = "1" -> 1 [] t = "a" -> 10 [] t = "28" -> 40
      [] t = "51" -> 81 [] t = "92" -> 146 [] t = "127" -> 295 [] t = "172" -> 370
      [] t = "256" -> 598 [] t = "5050" -> 20560 [] t = "8443" -> 33859 [] OTHER -> 0

\* the elements of s that belong to runs, in order.
RECURSIVE SelectRuns(_, _)
SelectRuns(s, runs) ==
    IF s = <<>> THEN <<>>
    ELSE IF Head(s) \in runs THEN <<Head(s)>> \o SelectRuns(Tail(s), runs)
    ELSE SelectRuns(Tail(s), runs)

parseIPv4(s) ==
    IF /\ Len(s) = 7
       /\ s[2] = "." /\ s[4] = "." /\ s[6] = "."
       /\ \A i \in {1, 3, 5, 7} : IsDigits(s[i]) /\ DecValue(s[i]) <= 255
    THEN <<[bits |-> 32, f |-> [i \in 1..4 |-> DecValue(s[2 * i - 1])]]>>
    ELSE <<>>

parseIPv6(s) ==
    LET n == Len(s)
        ellipses == {i \in 1..(n - 1) : s[i] = ":" /\ s[i + 1] = ":"}
        e == CHOOSE i \in ellipses : TRUE
        before == SelectRuns(Upto(s, e), HexRuns)
        after == SelectRuns(From(s, e + 1), HexRuns)
        groups == SelectRuns(s, HexRuns)
    IN  IF /\ n >= 2
           /\ \A i \in 1..n : s[i] \in HexRuns \cup {":"}
           /\ Cardinality(ellipses) <= 1
           /\ s[1] = ":" => s[2] = ":"
           /\ s[n] = ":" => s[n - 1] = ":"
           /\ IF ellipses = {} THEN Len(groups) = 8 ELSE Len(groups) <= 7
        THEN IF ellipses = {}
             THEN <<[bits |-> 128, f |-> [i \in 1..8 |-> HexValue(groups[i])]]>>
             ELSE <<[bits |-> 128,
                     f |-> [i \in 1..8 |->
                              IF i <= Len(before) THEN HexValue(before[i])
                              ELSE IF i > 8 - Len(after)
                              THEN HexValue(after[i - (8 - Len(after))])
                              ELSE 0]]>>
        ELSE <<>>

\* net.ParseIP: the first of '.' and ':' in s decides between IPv4 and IPv6.
ParseIP(s) ==
    LET dot == Index(s, ".")
        colon == Index(s, ":")
    IN  IF dot # 0 /\ (colon = 0 \/ dot < colon) THEN parseIPv4(s)
        ELSE IF colon # 0 /\ dot = 0 THEN parseIPv6(s)
        ELSE <<>>

\* IP.IsLoopback: 127.0.0.0/8 or ::1.
IsLoopback(ip) ==
    IF ip.bits = 32 THEN ip.f[1] = 127
    ELSE ip.f = <<0, 0, 0, 0, 0, 0, 0, 1>>

(***************************************************************************)
(* Errors.  errors.New gives a sentinel its own identity; errors.Join and  *)
(* fmt.Errorf("...%w") keep the identities of what they wrap.              *)
(***************************************************************************)
New(name, msg) == [is |-> {name}, msg |-> msg]

\* an error value that is no sentinel of the package (errors.New at the
\* return site, *url.Error, ...): errors.Is matches no sentinel.
Anonymous(msg) == [is |-> {}, msg |-> msg]

Join(a, b) == [is |-> a.is \cup b.is, msg |-> a.msg \o "\n" \o b.msg]

Errorf(prefix, e) == [is |-> e.is, msg |-> prefix \o e.msg]

\* errors.Is(err, sentinel), err possibly nil.
Is(err, sentinel) == err # <<>> /\ sentinel.is \subseteq err[1].is

ErrInvalidProfileURL == New("ErrInvalidProfileURL", "invalid profile URL")
ErrInvalidClientIdentifier == New("ErrInvalidClientIdentifier", "invalid client identifier")
ErrInvalidScheme == New("ErrInvalidScheme", "scheme must be either http or https")
ErrEmptyPath == New("ErrEmptyPath", "path must not be empty")
ErrInvalidPath == New("ErrInvalidPath", "path cannot contain single or double dots")
ErrInvalidFragment == New("ErrInvalidFragment", "fragment must be empty")
ErrUserIsSet == New("ErrUserIsSet", "user and or password must not be set")
ErrPortIsSet == New("ErrPortIsSet", "port must not be set")
ErrIsIP == New("ErrIsIP", "profile cannot be ip address")
ErrIsNonLoopback == New("ErrIsNonLoopback", "client id cannot be non-loopback ip")

ErrInvalidCodeChallengeMethod == New("ErrInvalidCodeChallengeMethod", "invalid code challenge method")
ErrInvalidGrantType == New("ErrInvalidGrantType", "grant_type must be authorization_code")
ErrNoMatchClientID == New("ErrNoMatchClientID", "client_id differs")
ErrNoMatchRedirectURI == New("ErrNoMatchRedirectURI", "redirect_uri differs")
ErrPKCERequired == New("ErrPKCERequired", "pkce is required, not provided")
ErrCodeChallengeFailed == New("ErrCodeChallengeFailed", "code challenge failed")
ErrInvalidResponseType == New("ErrInvalidResponseType", "response_type must be code")
ErrWrongCodeChallengeLenght ==
    New("ErrWrongCodeChallengeLenght",
        "code_challenge length must be between 43 and 128 characters long")

(***************************************************************************)
(* IsValidProfileURL, IsValidClientIdentifier.                             *)
(***************************************************************************)
\* strings.Contains(url.Path, ".") || strings.Contains(url.Path, "..")
PathHasDots(path) ==
    \/ Contains(path, ".")
    \/ \E i \in 1..(Len(path) - 1) : path[i] = "." /\ path[i + 1] = "."

\* IsValidProfileURL on the result p of url.Parse.
profileRules(p) ==
    IF p.err # <<>> THEN <<Join(ErrInvalidProfileURL, Anonymous(p.err[1]))>>
    ELSE IF p.url.Scheme # <<"http">> /\ p.url.Scheme # <<"https">>
    THEN <<Join(ErrInvalidProfileURL, ErrInvalidScheme)>>
    ELSE IF p.url.Path = <<>> THEN <<Join(ErrInvalidProfileURL, ErrEmptyPath)>>
    ELSE IF PathHasDots(p.url.Path) THEN <<Join(ErrInvalidProfileURL, ErrInvalidPath)>>
    ELSE IF p.url.Fragment # <<>> THEN <<Join(ErrInvalidProfileURL, ErrInvalidFragment)>>
    ELSE IF UserString(p.url.User) # <<>> THEN <<Join(ErrInvalidProfileURL, ErrUserIsSet)>>
    ELSE IF Port(p.url) # <<>> THEN <<Join(ErrInvalidProfileURL, ErrPortIsSet)>>
    ELSE IF ParseIP(p.url.Host) # <<>> THEN <<Join(ErrInvalidProfileURL, ErrIsIP)>>
    ELSE <<>>

IsValidProfileURL(profile) == profileRules(Parse(profile))

\* the last check of IsValidClientIdentifier: v is net.ParseIP(url.Host).
loopbackRule(v) ==
    IF v # <<>> /\ ~IsLoopback(v[1])
    THEN <<Join(ErrInvalidClientIdentifier, ErrIsNonLoopback)>>
    ELSE <<>>

\* IsValidClientIdentifier on the result p of url.Parse.
clientIdentifierRules(p) ==
    IF p.err # <<>> THEN <<Join(ErrInvalidClientIdentifier, Anonymous(p.err[1]))>>
    ELSE IF p.url.Scheme # <<"http">> /\ p.url.Scheme # <<"https">>
    THEN <<Join(ErrInvalidClientIdentifier, ErrInvalidScheme)>>
    ELSE IF p.url.Path = <<>> THEN <<Join(ErrInvalidClientIdentifier, ErrEmptyPath)>>
    ELSE IF PathHasDots(p.url.Path) THEN <<Join(ErrInvalidClientIdentifier, ErrInvalidPath)>>
    ELSE IF p.url.Fragment # <<>> THEN <<Join(ErrInvalidClientIdentifier, ErrInvalidFragment)>>
    ELSE IF UserString(p.url.User) # <<>>
    THEN <<Join(ErrInvalidClientIdentifier, ErrUserIsSet)>>
    ELSE loopbackRule(ParseIP(p.url.Host))

IsValidClientIdentifier(identifier) == clientIdentifierRules(Parse(identifier))

\* CanonicalizeURL once the scheme is in place.
canonicalString(urlStr, p) ==
    IF p.err # <<>> THEN urlStr
    ELSE String([p.url EXCEPT !.Path = IF p.url.Path = <<>> THEN <<"/">> ELSE p.url.Path])

\* CanonicalizeURL once urlStr has its "https://" put in front where needed.
canonicalWithScheme(urlStr) == canonicalString(urlStr, Parse(urlStr))

\* mutant: "https://" is put in front without looking at the string.
CanonicalizeURL_AlwaysPrefix(urlStr) ==
    canonicalWithScheme(<<"https", ":", "/", "/">> \o urlStr)

CanonicalizeURL(urlStr) ==
    canonicalWithScheme(
        IF /\ ~HasPrefix(urlStr, <<"http", ":", "/", "/">>)
           /\ ~HasPrefix(urlStr, <<"https", ":", "/", "/">>)
        THEN <<"https", ":", "/", "/">> \o urlStr
        ELSE urlStr)

(***************************************************************************)
(* PKCE challenges.                                                        *)
(***************************************************************************)
CodeChallengeMethods == <<<<"plain">>, <<"S256">>>>

containsString(s, v) == \E i \in 1..Len(s) : s[i] = v

IsValidCodeChallengeMethod(ccm) == containsString(CodeChallengeMethods, ccm)

\* mutant: the alphabet of base64.StdEncoding.
encodeURL_Std ==
    <<"A", "B", "C", "D", "E", "F", "G", "H", "I", "J", "K", "L", "M", "N", "O", "P",
      "Q", "R", "S", "T", "U", "V", "W", "X", "Y", "Z", "a", "b", "c", "d", "e", "f",
      "g", "h", "i", "j", "k", "l", "m", "n", "o", "p", "q", "r", "s", "t", "u", "v",
      "w", "x", "y", "z", "0", "1", "2", "3", "4", "5", "6", "7", "8", "9", "+", "/">>

\* the alphabet of base64.URLEncoding.
encodeURL ==
    <<"A", "B", "C", "D", "E", "F", "G", "H", "I", "J", "K", "L", "M", "N", "O", "P",
      "Q", "R", "S", "T", "U", "V", "W", "X", "Y", "Z", "a", "b", "c", "d", "e", "f",
      "g", "h", "i", "j", "k", "l", "m", "n", "o", "p", "q", "r", "s", "t", "u", "v",
      "w", "x", "y", "z", "0", "1", "2", "3", "4", "5", "6", "7", "8", "9", "-", "_">>

\* []byte(verifier): the byte of a character of a PKCE string, by its place
\* in the alphabet ("A".."Z" 65.., "a".."z" 97.., "0".."9" 48.., "-" 45, "_" 95).
byteAt(i) ==
    IF i = 0 THEN 63
    ELSE IF i <= 26 THEN 64 + i
    ELSE IF i <= 52 THEN 70 + i
    ELSE IF i <= 62 THEN i - 5
    ELSE IF i = 63 THEN 45
    ELSE 95

CharCode(c) == byteAt(Index(encodeURL, c))

\* crypto/sha256 is a library: Sum256 stands for it as a function from the
\* whole input to 32 bytes that is injective on the inputs of the model
\* (strings of one repeated character, shorter than 256, and the verifiers
\* and challenges made from the random sources of the model).
Sum256(data) ==
    [i \in 1..32 |->
        IF data = <<>> THEN (7 * i) % 256
        ELSE (CharCode(data[((i - 1) % Len(data)) + 1]) + i * Len(data)) % 256]

\* base64.RawURLEncoding.EncodeToString: 6 bits per character, no padding.
EncodeToString(src) ==
    LET byte(j) == IF j <= Len(src) THEN src[j] ELSE 0
        sextet(k) ==
            LET off == 6 * (k - 1)
                j == (off \div 8) + 1
                shift == off % 8
            IN  ((byte(j) * 256 + byte(j + 1)) \div (2 ^ (10 - shift))) % 64
    IN  [k \in 1..((8 * Len(src) + 5) \div 6) |-> encodeURL[sextet(k) + 1]]

s256Challenge(verifier) == EncodeToString(Sum256(verifier))

\* mutant: "plain" compares only the first len(cc) bytes of the verifier.
ValidateCodeChallenge_Prefix(ccm, cc, ver) ==
    IF ccm = <<"plain">> THEN HasPrefix(ver, cc)
    ELSE IF ccm = <<"S256">> THEN s256Challenge(ver) = cc
    ELSE FALSE

\* mutant: "plain" also wants the verifier to be 43 to 128 characters long.
ValidateCodeChallenge_LengthChecked(ccm, cc, ver) ==
    IF ccm = <<"plain">> THEN ver = cc /\ Len(ver) >= 43 /\ Len(ver) <= 128
    ELSE IF ccm = <<"S256">> THEN s256Challenge(ver) = cc
    ELSE FALSE

\* mutant: "S256" compares the verifier itself with the challenge.
ValidateCodeChallenge_Unhashed(ccm, cc, ver) ==
    IF ccm = <<"plain">> THEN ver = cc
    ELSE IF ccm = <<"S256">> THEN ver = cc
    ELSE FALSE

ValidateCodeChallenge(ccm, cc, ver) ==
    IF ccm = <<"plain">> THEN ver = cc
    ELSE IF ccm = <<"S256">> THEN s256Challenge(ver) = cc
    ELSE FALSE

\* cryptorand.Read(b): the random source is a stream of bytes, or fails; a
\* read of n bytes takes the first n of the stream.
Read(source, n) ==
    IF source.err # <<>> THEN [b |-> <<>>, err |-> source.err]
    ELSE [b |-> Upto(source.bytes, n), err |-> <<>>]

\* the buffer of newVerifier and of newState: make([]byte, 64).
RandomLen == 64

encodeRead(r) ==
    IF r.err # <<>> THEN [value |-> <<>>, err |-> r.err]
    ELSE [value |-> EncodeToString(r.b), err |-> <<>>]

\* mutant: the buffer holds 16 bytes.
newVerifier_ShortBuffer(source) == encodeRead(Read(source, 16))

newVerifier(source) == encodeRead(Read(source, RandomLen))

(***************************************************************************)
(* Client.Authenticate and Client.ValidateCallback.                        *)
(***************************************************************************)
ErrCodeNotFound == New("ErrCodeNotFound", "code not found")
ErrStateNotFound == New("ErrStateNotFound", "state not found")
ErrInvalidState == New("ErrInvalidState", "state does not match")
ErrInvalidIssuer == New("ErrInvalidIssuer", "issuer does not match")

NewClient(clientID, redirectURL) == [ClientID |-> clientID, RedirectURL |-> redirectURL]

newState(source) == encodeRead(Read(source, RandomLen))

\* oauth2.Config.AuthCodeURL with the three SetAuthURLParam options: the
\* authorization endpoint and the query parameters of the URL it builds.
AuthCodeURL(c, metadata, state, scope, cv) ==
    [AuthURL |-> metadata.AuthorizationEndpoint,
     response_type |-> <<"code">>,
     client_id |-> c.ClientID,
     redirect_uri |-> c.RedirectURL,
     state |-> state,
     scope |-> scope,
     code_challenge_method |-> <<"S256">>,
     code_challenge |-> s256Challenge(cv)]

NoAuthInfo(err) == [info |-> <<>>, authURL |-> <<>>, err |-> err]

authenticateVerified(c, profile, scope, metadata, state, cv) ==
    IF cv.err # <<>> THEN NoAuthInfo(cv.err)
    ELSE [info |-> <<[Metadata |-> metadata, Me |-> profile,
                      State |-> state, CodeVerifier |-> cv.value]>>,
          authURL |-> <<AuthCodeURL(c, metadata, state, scope, cv.value)>>,
          err |-> <<>>]

authenticateStated(c, profile, scope, metadata, state, sources) ==
    IF state.err # <<>> THEN NoAuthInfo(state.err)
    ELSE authenticateVerified(c, profile, scope, metadata, state.value,
                              newVerifier(sources[2]))

\* discovered is what c.DiscoverMetadata returned for the profile; sources
\* are the random source at the call of newState and at the call of newVerifier.
Authenticate(c, profile, scope, discovered, sources) ==
    IF discovered.err # <<>> THEN NoAuthInfo(discovered.err)
    ELSE authenticateStated(c, profile, scope, discovered.metadata[1],
                            newState(sources[1]), sources)

\* url.QueryUnescape: "+" is a space, "%XX" the character it stands for.
QueryUnescape(s) == [k \in 1..Len(s) |-> IF s[k] = "+" THEN " " ELSE pctDecode(s[k])]

\* url.ParseQuery on the fields between "&": an empty field is skipped, and so
\* is a field whose key or value does not unescape; the pairs <<key, value>>
\* in the order of the query.
RECURSIVE parseQueryFields(_)
parseQueryFields(fields) ==
    IF fields = <<>> THEN <<>>
    ELSE (IF Head(fields) = <<>> \/ Contains(Head(fields), BadEscape) THEN <<>>
          ELSE << <<QueryUnescape(CutBefore(Head(fields), "=")),
                    QueryUnescape(CutAfter(Head(fields), "="))>> >>)
         \o parseQueryFields(Tail(fields))

\* r.URL.Query()
Query(r) == parseQueryFields(Split(r.RawQuery, "&"))

\* url.Values.Get: the first value of the key, or "".
RECURSIVE Get(_, _)
Get(values, key) ==
    IF values = <<>> THEN <<>>
    ELSE IF Head(values)[1] = key THEN Head(values)[2]
    ELSE Get(Tail(values), key)

\* url.QueryEscape: a space becomes "+", every other character that is not
\* a letter, a digit, "-", "_", "." or "~" becomes "%XX".
QueryEscape(s) ==
    [k \in 1..Len(s) |->
        IF s[k] = " " THEN "+"
        ELSE IF IsAlnum(s[k]) \/ s[k] \in {"-", "_", ".", "~"} THEN s[k]
        ELSE pctEncode(s[k])]

\* url.Values.Encode of the parameters of a callback: "key=value" joined by "&".
RECURSIVE Encode(_)
Encode(pairs) ==
    IF pairs = <<>> THEN <<>>
    ELSE QueryEscape(pairs[1][1]) \o <<"=">> \o QueryEscape(pairs[1][2])
         \o (IF Len(pairs) = 1 THEN <<>> ELSE <<"&">> \o Encode(Tail(pairs)))

\* mutant: the state of the callback is not compared with the stored state.
validateCallbackValues_StateUnchecked(i, code, state, issuer) ==
    IF code = <<>> THEN [code |-> <<>>, err |-> <<ErrCodeNotFound>>]
    ELSE IF state = <<>> THEN [code |-> <<>>, err |-> <<ErrStateNotFound>>]
    ELSE IF issuer # i.Metadata.Issuer THEN [code |-> <<>>, err |-> <<ErrInvalidIssuer>>]
    ELSE [code |-> code, err |-> <<>>]

validateCallbackValues(i, code, state, issuer) ==
    IF code = <<>> THEN [code |-> <<>>, err |-> <<ErrCodeNotFound>>]
    ELSE IF state = <<>> THEN [code |-> <<>>, err |-> <<ErrStateNotFound>>]
    ELSE IF state # i.State THEN [code |-> <<>>, err |-> <<ErrInvalidState>>]
    ELSE IF issuer # i.Metadata.Issuer THEN [code |-> <<>>, err |-> <<ErrInvalidIssuer>>]
    ELSE [code |-> code, err |-> <<>>]

ValidateCallback(i, r) ==
    validateCallbackValues(i, Get(Query(r), <<"code">>), Get(Query(r), <<"state">>),
                           Get(Query(r), <<"iss">>))

(***************************************************************************)
(* Discovery.  The transport answers the requests of the client in the     *)
(* order they are made: conn holds the answers still to come and the log   *)
(* of the requests made so far.  An answer is a transport error or a       *)
(* response: its status, the links of its Link header as header.ParseLink  *)
(* gives them, the <link> and <a> elements html.Parse finds in its body,   *)
(* in document order, and what json.Unmarshal makes of the body.           *)
(***************************************************************************)
AuthorizationEndpointRel == <<"authorization_endpoint">>
TokenEndpointRel == <<"token_endpoint">>
IndieAuthMetadataRel == <<"indieauth-metadata">>

ErrNoEndpointFound == New("ErrNoEndpointFound", "no endpoint found")

NoEndpoint == [value |-> <<>>, err |-> <<ErrNoEndpointFound>>]

Endpoint(value) == [value |-> value, err |-> <<>>]

\* strings.Join(pieces, sep)
RECURSIVE JoinStrings(_, _)
JoinStrings(pieces, sep) ==
    IF pieces = <<>> THEN <<>>
    ELSE IF Len(pieces) = 1 THEN pieces[1]
    ELSE pieces[1] \o <<sep>> \o JoinStrings(Tail(pieces), sep)

TrimPrefix(s, c) == IF s # <<>> /\ s[1] = c THEN Tail(s) ELSE s

\* the loop of resolvePath over the elements of the path: "." is dropped,
\* ".." drops the element before it.
RECURSIVE removeDotSegments(_, _)
removeDotSegments(src, dst) ==
    IF src = <<>> THEN dst
    ELSE removeDotSegments(Tail(src),
            IF Head(src) = <<".">> THEN dst
            ELSE IF Head(src) = <<".", ".">>
            THEN (IF dst # <<>> THEN Upto(dst, Len(dst) - 1) ELSE dst)
            ELSE Append(dst, Head(src)))

resolveSegments(src) ==
    <<"/">> \o TrimPrefix(
        JoinStrings(removeDotSegments(src, <<>>)
                        \o (IF src[Len(src)] \in {<<".">>, <<".", ".">>} THEN << <<>> >> ELSE <<>>),
                    "/"),
        "/")

resolveFull(full) == IF full = <<>> THEN <<>> ELSE resolveSegments(Split(full, "/"))

\* resolvePath(base, ref) of net/url.
resolvePath(base, ref) ==
    resolveFull(IF ref = <<>> THEN base
                ELSE IF ref[1] # "/" THEN Upto(base, LastIndex(base, "/")) \o ref
                ELSE ref)

\* url.setPath(p) with its error dropped, as ResolveReference calls it.
withPath(url, set) == IF set.err # <<>> THEN url ELSE set.url

\* (*URL).ResolveReference(ref), for a base u that is not opaque.
ResolveReference(u, ref) ==
    IF ref.Scheme # <<>> \/ ref.Host # <<>> \/ ref.User # <<>>
    THEN withPath([ref EXCEPT !.Scheme = IF ref.Scheme = <<>> THEN u.Scheme ELSE ref.Scheme],
                  setPath([ref EXCEPT !.Scheme = IF ref.Scheme = <<>> THEN u.Scheme ELSE ref.Scheme],
                          resolvePath(EscapedPath(ref), <<>>)))
    ELSE IF ref.Opaque # <<>>
    THEN [ref EXCEPT !.Scheme = u.Scheme, !.User = <<>>, !.Host = <<>>, !.Path = <<>>]
    ELSE withPath(
            [ref EXCEPT !.Scheme = u.Scheme, !.Host = u.Host, !.User = u.User,
                        !.RawQuery = IF ref.Path = <<>> /\ ~ref.ForceQuery /\ ref.RawQuery = <<>>
                                     THEN u.RawQuery ELSE ref.RawQuery,
                        !.Fragment = IF ref.Path = <<>> /\ ~ref.ForceQuery /\ ref.RawQuery = <<>>
                                        /\ ref.Fragment = <<>>
                                     THEN u.Fragment ELSE ref.Fragment,
                        !.RawFragment = IF ref.Path = <<>> /\ ~ref.ForceQuery /\ ref.RawQuery = <<>>
                                           /\ ref.Fragment = <<>>
                                        THEN u.RawFragment ELSE ref.RawFragment],
            setPath(
              [ref EXCEPT !.Scheme = u.Scheme, !.Host = u.Host, !.User = u.User,
                        !.RawQuery = IF ref.Path = <<>> /\ ~ref.ForceQuery /\ ref.RawQuery = <<>>
                                     THEN u.RawQuery ELSE ref.RawQuery,
                        !.Fragment = IF ref.Path = <<>> /\ ~ref.ForceQuery /\ ref.RawQuery = <<>>
                                        /\ ref.Fragment = <<>>
                                     THEN u.Fragment ELSE ref.Fragment,
                        !.RawFragment = IF ref.Path = <<>> /\ ~ref.ForceQuery /\ ref.RawQuery = <<>>
                                           /\ ref.Fragment = <<>>
                                        THEN u.RawFragment ELSE ref.RawFragment],
              resolvePath(EscapedPath(u), EscapedPath(ref))))

\* resolveReferences: the endpoints with their values made absolute, or the
\* error of the first value that does not parse.
resolveOne(b, r, u) ==
    IF r.err # <<>> THEN r ELSE Endpoint(String(ResolveReference(b, u.url)))

resolveAll(b, refs) ==
    IF \E k \in 1..Len(refs) : refs[k].err = <<>> /\ Parse(refs[k].value).err # <<>>
    THEN [endpoints |-> <<>>,
          err |-> <<Anonymous(Parse(refs[CHOOSE k \in 1..Len(refs) :
                                   /\ refs[k].err = <<>> /\ Parse(refs[k].value).err # <<>>
                                   /\ \A j \in 1..(k - 1) :
                                        ~(refs[j].err = <<>> /\ Parse(refs[j].value).err # <<>>)
                                  ].value).err[1])>>]
    ELSE [endpoints |-> [k \in 1..Len(refs) |-> resolveOne(b, refs[k], Parse(refs[k].value))],
          err |-> <<>>]

resolveFrom(b, refs) ==
    IF b.err # <<>> THEN [endpoints |-> <<>>, err |-> <<Anonymous(b.err[1])>>]
    ELSE resolveAll(b.url, refs)

resolveReferences(base, refs) == resolveFrom(Parse(base), refs)

\* httpLink: for each relation the Href of the first link of the header that
\* names it.
firstLink(links, rel) ==
    IF \E k \in 1..Len(links) : containsString(links[k].Rel, rel)
    THEN Endpoint(links[CHOOSE k \in 1..Len(links) :
                          /\ containsString(links[k].Rel, rel)
                          /\ \A j \in 1..(k - 1) : ~containsString(links[j].Rel, rel)].Href)
    ELSE NoEndpoint

httpLink(links, rels) == [i \in 1..Len(rels) |-> firstLink(links, rels[i])]

\* the test of htmlLink on one element: a <link> or <a> with href and rel
\* whose rel, split at spaces, holds the relation.
elementHas(n, rel) ==
    /\ n.tag \in {"link", "a"}
    /\ n.href # <<>>
    /\ n.rel # <<>>
    /\ containsString(Split(n.rel[1], " "), rel)

\* htmlLink: for each relation the href of the first such element.
firstElement(nodes, rel) ==
    IF \E k \in 1..Len(nodes) : elementHas(nodes[k], rel)
    THEN Endpoint(nodes[CHOOSE k \in 1..Len(nodes) :
                          /\ elementHas(nodes[k], rel)
                          /\ \A j \in 1..(k - 1) : ~elementHas(nodes[j], rel)].href[1])
    ELSE NoEndpoint

htmlLink(nodes, rels) == [i \in 1..Len(rels) |-> firstElement(nodes, rels[i])]

allFound(endpoints) == \A i \in 1..Len(endpoints) : endpoints[i].err = <<>>

\* mutant: a relation the body declares takes the body's value.
mergeLinks_BodyFirst(httpEndpoints, htmlEndpoints) ==
    [i \in 1..Len(httpEndpoints) |->
        IF htmlEndpoints[i].err = <<>> THEN htmlEndpoints[i] ELSE httpEndpoints[i]]

mergeLinks(httpEndpoints, htmlEndpoints) ==
    [i \in 1..Len(httpEndpoints) |->
        IF httpEndpoints[i].err = <<>> THEN httpEndpoints[i] ELSE htmlEndpoints[i]]

\* extractEndpoints: the header alone when it names every relation, else
\* header and body together.
extractFrom(resp, httpEndpoints, rels) ==
    IF allFound(httpEndpoints)
    THEN [endpoints |-> httpEndpoints, found |-> TRUE, err |-> <<>>]
    ELSE IF resp.BodyErr # <<>>
    THEN [endpoints |-> <<>>, found |-> FALSE, err |-> resp.BodyErr]
    ELSE [endpoints |-> mergeLinks(httpEndpoints, htmlLink(resp.Body, rels)),
          found |-> allFound(mergeLinks(httpEndpoints, htmlLink(resp.Body, rels))),
          err |-> <<>>]

extractEndpoints(resp, rels) == extractFrom(resp, httpLink(resp.Links, rels), rels)

NoRequest(err, conn) == [endpoints |-> <<>>, found |-> FALSE, err |-> err, conn |-> conn]

\* c.Client.Do(req): the next answer of the transport; the response to a
\* HEAD request has no body.
Do(conn, method, url) ==
    [resp |-> IF method = "HEAD"
              THEN [Head(conn.answers) EXCEPT !.Body = <<>>, !.BodyErr = <<>>,
                                              !.JSON = [valid |-> FALSE, value |-> <<>>]]
              ELSE Head(conn.answers),
     conn |-> [answers |-> Tail(conn.answers),
               log |-> Append(conn.log, <<method, url>>)]]

requestResolved(extracted, resolved, conn) ==
    IF resolved.err # <<>> THEN NoRequest(resolved.err, conn)
    ELSE [endpoints |-> resolved.endpoints, found |-> extracted.found, err |-> <<>>,
          conn |-> conn]

requestExtracted(extracted, base, conn) ==
    IF extracted.err # <<>> THEN NoRequest(extracted.err, conn)
    ELSE requestResolved(extracted, resolveReferences(base, extracted.endpoints), conn)

requestDone(done, base, rels) ==
    IF done.resp.err # <<>> THEN NoRequest(done.resp.err, done.conn)
    ELSE IF done.resp.StatusCode < 200 \/ 300 <= done.resp.StatusCode
    THEN NoRequest(<<Anonymous("response error")>>, done.conn)
    ELSE requestExtracted(extractEndpoints(done.resp, rels), base, done.conn)

requestParsed(conn, method, urlStr, rels, parsed) ==
    IF parsed.err # <<>> THEN NoRequest(<<Anonymous(parsed.err[1])>>, conn)
    ELSE requestDone(Do(conn, method, urlStr), String(parsed.url), rels)

discoverRequest(conn, method, urlStr, rels) ==
    requestParsed(conn, method, urlStr, rels, Parse(urlStr))

\* mutant: a relation that both requests found takes the value of GET.
mergeRequests_GetFirst(head, get, rels) ==
    [i \in 1..Len(rels) |->
        IF get.err = <<>> /\ get.endpoints[i].err = <<>> THEN get.endpoints[i]
        ELSE IF head.err = <<>> /\ head.endpoints[i].err = <<>> THEN head.endpoints[i]
        ELSE NoEndpoint]

\* the loop at the end of discoverEndpoints.
mergeRequests(head, get, rels) ==
    [i \in 1..Len(rels) |->
        IF head.err = <<>> /\ head.endpoints[i].err = <<>> THEN head.endpoints[i]
        ELSE IF get.err = <<>> /\ get.endpoints[i].err = <<>> THEN get.endpoints[i]
        ELSE NoEndpoint]

\* mutant: when both requests fail the error of HEAD is returned.
discoverAfterGet_HeadError(head, get, rels) ==
    IF get.err = <<>> /\ get.endpoints # <<>> /\ get.found
    THEN [endpoints |-> get.endpoints, err |-> <<>>, conn |-> get.conn]
    ELSE IF head.err # <<>> /\ get.err # <<>>
    THEN [endpoints |-> <<>>, err |-> head.err, conn |-> get.conn]
    ELSE [endpoints |-> mergeRequests(head, get, rels), err |-> <<>>, conn |-> get.conn]

discoverAfterGet(head, get, rels) ==
    IF get.err = <<>> /\ get.endpoints # <<>> /\ get.found
    THEN [endpoints |-> get.endpoints, err |-> <<>>, conn |-> get.conn]
    ELSE IF head.err # <<>> /\ get.err # <<>>
    THEN [endpoints |-> <<>>, err |-> get.err, conn |-> get.conn]
    ELSE [endpoints |-> mergeRequests(head, get, rels), err |-> <<>>, conn |-> get.conn]

\* mutant: the GET request is made whatever HEAD yielded.
discoverAfterHead_AlwaysGet(head, urlStr, rels) ==
    discoverAfterGet(head, discoverRequest(head.conn, "GET", urlStr, rels), rels)

discoverAfterHead(head, urlStr, rels) ==
    IF head.err = <<>> /\ head.endpoints # <<>> /\ head.found
    THEN [endpoints |-> head.endpoints, err |-> <<>>, conn |-> head.conn]
    ELSE discoverAfterGet(head, discoverRequest(head.conn, "GET", urlStr, rels), rels)

discoverEndpoints(conn, urlStr, rels) ==
    discoverAfterHead(discoverRequest(conn, "HEAD", urlStr, rels), urlStr, rels)

linkEndpointOf(urls) ==
    IF urls.err # <<>> THEN [value |-> <<>>, err |-> urls.err, conn |-> urls.conn]
    ELSE [value |-> urls.endpoints[1].value, err |-> urls.endpoints[1].err, conn |-> urls.conn]

DiscoverLinkEndpoint(conn, urlStr, rel) == linkEndpointOf(discoverEndpoints(conn, urlStr, <<rel>>))

NoDocument(err, conn) == [metadata |-> <<>>, err |-> err, conn |-> conn]

\* the end of discoverMetadata: the response to the request for the document.
metadataDone(done) ==
    IF done.resp.err # <<>> THEN NoDocument(done.resp.err, done.conn)
    ELSE IF done.resp.BodyErr # <<>> THEN NoDocument(done.resp.BodyErr, done.conn)
    ELSE IF done.resp.StatusCode # 200
    THEN NoDocument(<<Anonymous("status code: expected 200")>>, done.conn)
    ELSE IF ~done.resp.JSON.valid
    THEN NoDocument(<<Anonymous("invalid character looking for beginning of value")>>,
                    done.conn)
    ELSE [metadata |-> done.resp.JSON.value, err |-> <<>>, conn |-> done.conn]

metadataLinked(link) ==
    IF link.err # <<>> THEN NoDocument(link.err, link.conn)
    ELSE IF Parse(link.value).err # <<>>
    THEN NoDocument(<<Anonymous(Parse(link.value).err[1])>>, link.conn)
    ELSE metadataDone(Do(link.conn, "GET", link.value))

discoverMetadata(conn, urlStr) ==
    metadataLinked(DiscoverLinkEndpoint(conn, urlStr, IndieAuthMetadataRel))

NoDiscovery(err, urls, conn) == [metadata |-> <<>>, err |-> err, urls |-> urls, conn |-> conn]

\* the legacy path of DiscoverMetadata; urls is what discoverEndpoints
\* returned, kept in the result next to the metadata.
legacyMetadata(urls) ==
    IF urls.err # <<>> THEN NoDiscovery(urls.err, <<>>, urls.conn)
    ELSE IF urls.endpoints[1].err # <<>>
    THEN NoDiscovery(urls.endpoints[1].err, <<urls.endpoints>>, urls.conn)
    ELSE [metadata |-> <<[Issuer |-> <<>>,
                          AuthorizationEndpoint |-> urls.endpoints[1].value,
                          TokenEndpoint |-> urls.endpoints[2].value,
                          RevocationEndpoint |-> urls.endpoints[2].value]>>,
          err |-> <<>>, urls |-> <<urls.endpoints>>, conn |-> urls.conn]

\* mutant: the legacy requests are made even when the document was fetched.
discoveredOr_LegacyToo(document, urlStr) ==
    IF document.err = <<>>
    THEN [metadata |-> document.metadata, err |-> <<>>, urls |-> <<>>,
          conn |-> discoverEndpoints(document.conn, urlStr,
                                     <<AuthorizationEndpointRel, TokenEndpointRel>>).conn]
    ELSE legacyMetadata(discoverEndpoints(document.conn, urlStr,
                                          <<AuthorizationEndpointRel, TokenEndpointRel>>))

discoveredOr(document, urlStr) ==
    IF document.err = <<>>
    THEN [metadata |-> document.metadata, err |-> <<>>, urls |-> <<>>, conn |-> document.conn]
    ELSE legacyMetadata(discoverEndpoints(document.conn, urlStr,
                                          <<AuthorizationEndpointRel, TokenEndpointRel>>))

DiscoverMetadata(conn, urlStr) == discoveredOr(discoverMetadata(conn, urlStr), urlStr)

(***************************************************************************)
(* Server.ParseAuthorization and Server.ValidateTokenExchange.             *)
(* A request r carries the first value of each form field (<<>> when the   *)
(* field is absent or empty), the values of "scopes", and formErr: whether *)
(* r.ParseForm() fails.                                                    *)
(***************************************************************************)
MinCodeLength == 43

MaxCodeLength == 128

NewServer(requirePKCE) == [RequirePKCE |-> requirePKCE]

ErrParseForm == Anonymous("invalid form encoding")

\* mutant: no default for an absent response_type.
responseTypeOf_NoDefault(r) == r.response_type

\* response_type, "code" when absent (legacy clients).
responseTypeOf(r) == IF r.response_type = <<>> THEN <<"code">> ELSE r.response_type

\* mutant: no default for an absent grant_type.
grantTypeOf_NoDefault(r) == r.grant_type

\* grant_type, "authorization_code" when absent (legacy clients).
grantTypeOf(r) == IF r.grant_type = <<>> THEN <<"authorization_code">> ELSE r.grant_type

\* mutant: the two bounds are excluded from the range.
WrongLength_Exclusive(x) == Len(x) <= MinCodeLength \/ Len(x) >= MaxCodeLength

\* len(x) < 43 || len(x) > 128 (RFC 7636, sections 4.1 and 4.2).
WrongLength(x) == Len(x) < MinCodeLength \/ Len(x) > MaxCodeLength

\* validateRedirectURI on the results of the two url.Parse calls.
compareHosts(client, redirect) ==
    IF client.err # <<>> THEN <<Anonymous(client.err[1])>>
    ELSE IF redirect.err # <<>> THEN <<Anonymous(redirect.err[1])>>
    ELSE IF redirect.url.Host = client.url.Host THEN <<>>
    ELSE <<Anonymous("redirect uri has different host from client id")>>

validateRedirectURI(clientID, redirectURI) ==
    compareHosts(Parse(clientID), Parse(redirectURI))

\* mutant: a request without code_challenge passes whatever RequirePKCE is.
authorizationPKCE_Optional(s, cc, ccm) ==
    IF cc # <<>>
    THEN IF WrongLength(cc) THEN <<ErrWrongCodeChallengeLenght>>
         ELSE IF ~IsValidCodeChallengeMethod(ccm) THEN <<ErrInvalidCodeChallengeMethod>>
         ELSE <<>>
    ELSE <<>>

\* mutant: the method of a challenge is not looked at.
authorizationPKCE_MethodUnchecked(s, cc, ccm) ==
    IF cc # <<>>
    THEN IF WrongLength(cc) THEN <<ErrWrongCodeChallengeLenght>> ELSE <<>>
    ELSE IF s.RequirePKCE THEN <<ErrPKCERequired>>
    ELSE <<>>

\* the code_challenge block of ParseAuthorization: the error it returns, or nil.
authorizationPKCE(s, cc, ccm) ==
    IF cc # <<>>
    THEN IF WrongLength(cc) THEN <<ErrWrongCodeChallengeLenght>>
         ELSE IF ~IsValidCodeChallengeMethod(ccm) THEN <<ErrInvalidCodeChallengeMethod>>
         ELSE <<>>
    ELSE IF s.RequirePKCE THEN <<ErrPKCERequired>>
    ELSE <<>>

\* mutant: client_id is validated before response_type is looked at.
ParseAuthorization_ClientFirst(s, r) ==
    LET Fail(e) == [req |-> <<>>, err |-> <<e>>]
        resType == responseTypeOf(r)
        clientID == r.client_id
        idErr == IsValidClientIdentifier(clientID)
        redirectURI == r.redirect_uri
        redirectErr == validateRedirectURI(clientID, redirectURI)
        cc == r.code_challenge
        ccm == IF cc # <<>> THEN r.code_challenge_method ELSE <<>>
        pkceErr == authorizationPKCE(s, cc, ccm)
        scopes ==
            IF r.scope # <<>> THEN Split(r.scope, " ")
            ELSE IF Len(r.scopes) > 0 THEN r.scopes
            ELSE <<>>
    IN  IF r.formErr THEN Fail(ErrParseForm)
        ELSE IF idErr # <<>> THEN Fail(Errorf("invalid client_id: ", idErr[1]))
        ELSE IF resType # <<"code">> THEN Fail(ErrInvalidResponseType)
        ELSE IF redirectErr # <<>> THEN Fail(redirectErr[1])
        ELSE IF pkceErr # <<>> THEN Fail(pkceErr[1])
        ELSE [req |-> <<[RedirectURI |-> redirectURI,
                         ClientID |-> clientID,
                         State |-> r.state,
                         Scopes |-> scopes,
                         CodeChallenge |-> cc,
                         CodeChallengeMethod |-> ccm]>>,
              err |-> <<>>]

ParseAuthorization(s, r) ==
    LET Fail(e) == [req |-> <<>>, err |-> <<e>>]
        resType == responseTypeOf(r)
        clientID == r.client_id
        idErr == IsValidClientIdentifier(clientID)
        redirectURI == r.redirect_uri
        redirectErr == validateRedirectURI(clientID, redirectURI)
        cc == r.code_challenge
        ccm == IF cc # <<>> THEN r.code_challenge_method ELSE <<>>
        pkceErr == authorizationPKCE(s, cc, ccm)
        scopes ==
            IF r.scope # <<>> THEN Split(r.scope, " ")
            ELSE IF Len(r.scopes) > 0 THEN r.scopes
            ELSE <<>>
    IN  IF r.formErr THEN Fail(ErrParseForm)
        ELSE IF resType # <<"code">> THEN Fail(ErrInvalidResponseType)
        ELSE IF idErr # <<>> THEN Fail(Errorf("invalid client_id: ", idErr[1]))
        ELSE IF redirectErr # <<>> THEN Fail(redirectErr[1])
        ELSE IF pkceErr # <<>> THEN Fail(pkceErr[1])
        ELSE [req |-> <<[RedirectURI |-> redirectURI,
                         ClientID |-> clientID,
                         State |-> r.state,
                         Scopes |-> scopes,
                         CodeChallenge |-> cc,
                         CodeChallengeMethod |-> ccm]>>,
              err |-> <<>>]

\* mutant: the verifier's length is checked before the stored challenge is looked at.
exchangePKCE_VerifierFirst(s, authRequest, codeVerifier) ==
    LET cc == authRequest.CodeChallenge
        ccm == authRequest.CodeChallengeMethod
    IN  IF WrongLength(codeVerifier)
        THEN <<Anonymous("code_verifier length must be between 43 and 128 characters long")>>
        ELSE IF authRequest.CodeChallenge = <<>>
        THEN IF s.RequirePKCE THEN <<ErrPKCERequired>> ELSE <<>>
        ELSE IF WrongLength(cc) THEN <<ErrWrongCodeChallengeLenght>>
        ELSE IF ~IsValidCodeChallengeMethod(ccm) THEN <<ErrInvalidCodeChallengeMethod>>
        ELSE IF ~ValidateCodeChallenge(ccm, cc, codeVerifier) THEN <<ErrCodeChallengeFailed>>
        ELSE <<>>

\* the code challenge block of ValidateTokenExchange: the error it returns, or nil.
exchangePKCE(s, authRequest, codeVerifier) ==
    LET cc == authRequest.CodeChallenge
        ccm == authRequest.CodeChallengeMethod
    IN  IF authRequest.CodeChallenge = <<>>
        THEN IF s.RequirePKCE THEN <<ErrPKCERequired>> ELSE <<>>
        ELSE IF WrongLength(codeVerifier)
        THEN <<Anonymous("code_verifier length must be between 43 and 128 characters long")>>
        ELSE IF WrongLength(cc) THEN <<ErrWrongCodeChallengeLenght>>
        ELSE IF ~IsValidCodeChallengeMethod(ccm) THEN <<ErrInvalidCodeChallengeMethod>>
        ELSE IF ~ValidateCodeChallenge(ccm, cc, codeVerifier) THEN <<ErrCodeChallengeFailed>>
        ELSE <<>>

ValidateTokenExchange(s, authRequest, r) ==
    LET grantType == grantTypeOf(r)
        clientID == r.client_id
        redirectURI == r.redirect_uri
        codeVerifier == r.code_verifier
    IN  IF r.formErr THEN <<ErrParseForm>>
        ELSE IF grantType # <<"authorization_code">> THEN <<ErrInvalidGrantType>>
        ELSE IF authRequest.ClientID # clientID THEN <<ErrNoMatchClientID>>
        ELSE IF authRequest.RedirectURI # redirectURI THEN <<ErrNoMatchRedirectURI>>
        ELSE exchangePKCE(s, authRequest, codeVerifier)

(***************************************************************************)
(* Micropub (package micropub): ParseRequest and Router.micropubPost.      *)
(* Actions, scopes and JSON error names are plain strings.  A request r    *)
(* carries what ParseRequest looks at: whether its Content-Type is JSON,   *)
(* whether r.ParseForm / json.Unmarshal fails, the form value h, the JSON  *)
(* member type (<<>> when absent, else <<the array>>), the member or form  *)
(* key action (<<>> when absent) and url.  The implementation impl is what *)
(* its methods answer: the scopes HasScope grants and the error of the     *)
(* method that changes posts.  A response carries the calls made to impl.  *)
(***************************************************************************)
ActionCreate == "create"
ActionUpdate == "update"
ActionDelete == "delete"
ActionUndelete == "undelete"

ErrNotFound == New("ErrNotFound", "not found")
ErrBadRequest == New("ErrBadRequest", "invalid request")
ErrNotImplemented == New("ErrNotImplemented", "not implemented")
ErrNoFormUpdate == New("ErrNoFormUpdate", "micropub update actions require using the JSON syntax")
ErrNoURL == New("ErrNoURL", "micropub actions require a URL property")
ErrNoData == New("ErrNoData", "no micropub data was found in the request")
ErrNoActionCreate == New("ErrNoActionCreate", "cannot specify an action when creating a post")
ErrMultipleTypes == New("ErrMultipleTypes", "type must have a single value")

NoRequestParsed(err) == [req |-> <<>>, err |-> <<err>>]

MicropubRequest(action, url, type) ==
    [req |-> <<[Action |-> action, URL |-> url, Type |-> type]>>, err |-> <<>>]

\* url.Values.Get("action"): the value, "" when the key is absent.
FormAction(body) == IF body.action = <<>> THEN "" ELSE body.action[1]

parseFormEncoded(body) ==
    IF body.h # ""
    THEN IF body.action # <<>> THEN NoRequestParsed(ErrNoActionCreate)
         ELSE MicropubRequest(ActionCreate, "", <<"h-", body.h>>)
    ELSE IF FormAction(body) # ""
    THEN IF FormAction(body) = ActionUpdate THEN NoRequestParsed(ErrNoFormUpdate)
         ELSE IF body.url # "" THEN MicropubRequest(FormAction(body), body.url, <<>>)
         ELSE NoRequestParsed(ErrNoURL)
    ELSE NoRequestParsed(ErrNoData)

parseJSON(body) ==
    IF body.malformed THEN NoRequestParsed(Anonymous("unexpected end of JSON input"))
    ELSE IF body.type # <<>>
    THEN IF Len(body.type[1]) # 1 THEN NoRequestParsed(ErrMultipleTypes)
         ELSE MicropubRequest(ActionCreate, "", body.type[1][1])
    ELSE IF FormAction(body) # ""
    THEN IF body.url = "" THEN NoRequestParsed(ErrNoURL)
         ELSE MicropubRequest(FormAction(body), body.url, <<>>)
    ELSE NoRequestParsed(ErrNoData)

ParseRequest(r) ==
    IF r.json THEN parseJSON(r)
    ELSE IF r.malformed THEN NoRequestParsed(Anonymous("invalid semicolon separator in query"))
    ELSE parseFormEncoded(r)

serveErrorJSON(code, err, calls) ==
    [StatusCode |-> code, error |-> err, Location |-> "", calls |-> calls]

serveError(err, calls) ==
    IF Is(<<err>>, ErrNotFound) THEN serveErrorJSON(404, "invalid_request", calls)
    ELSE IF Is(<<err>>, ErrBadRequest) THEN serveErrorJSON(400, "invalid_request", calls)
    ELSE IF Is(<<err>>, ErrNotImplemented) THEN serveErrorJSON(501, "invalid_request", calls)
    ELSE serveErrorJSON(500, "server_error", calls)

\* a call of a method of the implementation: its name, its argument and
\* whether it answered true (HasScope) or without error (the others).
Call(method, a, ok) == [method |-> method, arg |-> a, ok |-> ok]

HasScope(impl, scope) == scope \in impl.granted

\* mutant: the method is called whatever HasScope answered.
implCalled_ScopeIgnored(impl, scope, method, a, code, location) ==
    IF impl.err # <<>>
    THEN serveError(impl.err[1], <<Call("HasScope", scope, HasScope(impl, scope)),
                                   Call(method, a, FALSE)>>)
    ELSE [StatusCode |-> code, error |-> "", Location |-> location,
          calls |-> <<Call("HasScope", scope, HasScope(impl, scope)), Call(method, a, TRUE)>>]

\* one case of the switch of micropubPost: checkScope, then the method of
\* the implementation, then the response.
implCalled(impl, scope, method, a, code, location) ==
    IF ~HasScope(impl, scope)
    THEN serveErrorJSON(403, "insufficient_scope", <<Call("HasScope", scope, FALSE)>>)
    ELSE IF impl.err # <<>>
    THEN serveError(impl.err[1], <<Call("HasScope", scope, TRUE), Call(method, a, FALSE)>>)
    ELSE [StatusCode |-> code, error |-> "", Location |-> location,
          calls |-> <<Call("HasScope", scope, TRUE), Call(method, a, TRUE)>>]

postParsed(impl, mr) ==
    IF mr.Action = ActionCreate
    THEN implCalled(impl, "create", "Create", mr, 202, impl.location)
    ELSE IF mr.Action = ActionUpdate
    THEN implCalled(impl, "update", "Update", mr, 200, impl.location)
    ELSE IF mr.Action = ActionDelete
    THEN implCalled(impl, "delete", "Delete", mr.URL, 200, "")
    ELSE IF mr.Action = ActionUndelete
    THEN implCalled(impl, "undelete", "Undelete", mr.URL, 200, "")
    ELSE serveError(Errorf("invalid action: ", ErrBadRequest), <<>>)

postRequest(impl, parsed) ==
    IF parsed.err # <<>> THEN serveError(Join(ErrBadRequest, parsed.err[1]), <<>>)
    ELSE postParsed(impl, parsed.req[1])

micropubPost(impl, r) == postRequest(impl, ParseRequest(r))

(***************************************************************************)
(* The wire between client and server: the query oauth2.Config.AuthCodeURL *)
(* builds and the body Client.FetchProfile posts, both url.Values.Encode,   *)
(* and the form r.ParseForm makes of them on the server.                    *)
(***************************************************************************)
Key(a, b) == <<a, "_", b>>

\* the query of the URL AuthCodeURL returns (Values.Encode sorts by key).
AuthCodeQuery(authURL) ==
    Encode(<< <<Key("client", "id"), authURL.client_id>>,
              <<Key("code", "challenge"), authURL.code_challenge>>,
              <<Key("code", "challenge") \o <<"_", "method">>,
                authURL.code_challenge_method>>,
              <<Key("redirect", "uri"), authURL.redirect_uri>>,
              <<Key("response", "type"), authURL.response_type>>,
              <<<<"scope">>, authURL.scope>>,
              <<<<"state">>, authURL.state>> >>)

\* the body of the request of FetchProfile: v.Encode().
exchangeBody(c, i, code) ==
    Encode(<< <<Key("client", "id"), c.ClientID>>,
              <<<<"code">>, code>>,
              <<Key("code", "verifier"), i.CodeVerifier>>,
              <<Key("grant", "type"), <<"authorization_code">> >>,
              <<Key("redirect", "uri"), c.RedirectURL>> >>)

\* r.Form[key]: every value of the key.
RECURSIVE FormValues(_, _)
FormValues(values, key) ==
    IF values = <<>> THEN <<>>
    ELSE (IF Head(values)[1] = key THEN <<Head(values)[2]>> ELSE <<>>)
         \o FormValues(Tail(values), key)

\* r.ParseForm() fails when a field of the query does not unescape.
formFails(raw) == \E k \in 1..Len(Split(raw, "&")) : Contains(Split(raw, "&")[k], BadEscape)

\* the request ParseAuthorization reads, made of the query of its URL.
authorizationForm(raw, values) ==
    [formErr |-> formFails(raw),
     response_type |-> Get(values, Key("response", "type")),
     client_id |-> Get(values, Key("client", "id")),
     redirect_uri |-> Get(values, Key("redirect", "uri")),
     state |-> Get(values, <<"state">>),
     code_challenge |-> Get(values, Key("code", "challenge")),
     code_challenge_method |-> Get(values, Key("code", "challenge") \o <<"_", "method">>),
     scope |-> Get(values, <<"scope">>),
     scopes |-> FormValues(values, <<"scopes">>)]

\* the request ValidateTokenExchange reads, made of the posted body.
exchangeForm(raw, values) ==
    [formErr |-> formFails(raw),
     grant_type |-> Get(values, Key("grant", "type")),
     client_id |-> Get(values, Key("client", "id")),
     redirect_uri |-> Get(values, Key("redirect", "uri")),
     code_verifier |-> Get(values, Key("code", "verifier"))]

\* mutant: the verifier is posted as the challenge was: hashed.
FetchProfileRequest_Hashed(c, i, code) ==
    exchangeForm(exchangeBody(c, [i EXCEPT !.CodeVerifier = s256Challenge(i.CodeVerifier)], code),
                 parseQueryFields(Split(exchangeBody(c, [i EXCEPT !.CodeVerifier =
                                                      s256Challenge(i.CodeVerifier)], code), "&")))

\* the exchange request of FetchProfile as the server reads it.
FetchProfileRequest(c, i, code) ==
    exchangeForm(exchangeBody(c, i, code), parseQueryFields(Split(exchangeBody(c, i, code), "&")))

\* the authorization request a browser following authURL makes, as the
\* server reads it.
AuthorizationRequest(authURL) ==
    authorizationForm(AuthCodeQuery(authURL),
                      parseQueryFields(Split(AuthCodeQuery(authURL), "&")))

(***************************************************************************)
(* The example server (package main of examples/server): the map of       *)
(* authorizations, its mutex, and the handlers that store and redeem an    *)
(* authorization code.  Time is in minutes.                                 *)
(***************************************************************************)
\* authorization.isExpired: time.Since(ar.time) > time.Minute*10
AuthorizationExpiry == 10

isExpired(ar, now) == now - ar.time > AuthorizationExpiry

\* mutant: Lock does not wait for the holder of the mutex.
CanLock_Unguarded(mu) == TRUE

\* sync.Mutex: Lock returns once nobody holds the mutex (<<>>).
CanLock(mu) == mu = <<>>

\* serveErrorJSON(w, 400, "invalid_request", description)
InvalidRequest(description) == [StatusCode |-> 400, error_description |-> description]

\* the AuthenticationRequest authorizationCodeExchange rebuilds from t.req.
rebuiltRequest(req) ==
    [RedirectURI |-> req.RedirectURI, ClientID |-> req.ClientID, State |-> <<>>,
     Scopes |-> <<>>, CodeChallenge |-> req.CodeChallenge,
     CodeChallengeMethod |-> req.CodeChallengeMethod]

\* the end of authorizationCodeExchange: the response to the error of
\* ValidateTokenExchange.
exchangeResponse(err) ==
    IF err # <<>> THEN InvalidRequest(err[1].msg)
    ELSE [StatusCode |-> 200, error_description |-> ""]

(***************************************************************************)
(* Inputs.                                                                 *)
(***************************************************************************)
\* how far around 43 and 128 the lengths of the PKCE strings are taken.
Margin == 1

Lengths ==
    {0, 10, 50, 51, 100, 130}
        \cup ((MinCodeLength - Margin)..(MinCodeLength + Margin))
        \cup ((MaxCodeLength - Margin)..(MaxCodeLength + Margin))

Https == <<"https", ":", "/", "/">>

ExampleCom == <<"example", ".", "com">>

ExampleOrg == <<"example", ".", "org">>

NonLoopback == <<"172", ".", "28", ".", "92", ".", "51">>

Loopback == <<"127", ".", "0", ".", "0", ".", "1">>

NotAURL == <<"this", " ", "ain", "'", "t", " ", "a", " ", "URL">>

ClientIDs ==
    { Https \o ExampleCom \o <<"/">>,
      Https \o ExampleOrg \o <<"/">>,
      Https \o ExampleCom \o <<":", "8443", "/">>,
      Https \o Loopback \o <<":", "5050">>,
      Https \o NonLoopback \o <<"/">>,
      Https \o ExampleCom \o <<":", "foo", "/">>,
      <<>> }

RedirectURIs ==
    { Https \o ExampleCom \o <<"/", "callback">>,
      Https \o ExampleOrg \o <<"/", "callback">>,
      Https \o ExampleCom \o <<":", "8443", "/", "callback">>,
      Https \o <<"user", "@">> \o ExampleCom \o <<"/", "callback">>,
      <<"http", ":", "/", "/">> \o ExampleCom \o <<"/", "callback">>,
      Https \o ExampleCom \o <<":", "foo", "/">>,
      NotAURL,
      <<>> }

Methods == {<<>>, <<"plain">>, <<"S256">>, <<"unknown">>}

ScopeFields ==
    { [scope |-> <<>>, scopes |-> <<>>],
      [scope |-> <<"profile">>, scopes |-> <<>>],
      [scope |-> <<"profile", " ", "email">>, scopes |-> <<<<"create">>>>],
      [scope |-> <<>>, scopes |-> <<<<"create">>, <<"update">>>>] }

WellFormedAuthorizationRequests ==
    { [formErr |-> FALSE, response_type |-> rt, client_id |-> cid, redirect_uri |-> ru,
       state |-> <<"abc123">>, code_challenge |-> Repeat("a", n),
       code_challenge_method |-> m, scope |-> sc.scope, scopes |-> sc.scopes] :
        rt \in {<<>>, <<"code">>, <<"token">>}, cid \in ClientIDs, ru \in RedirectURIs,
        n \in Lengths, m \in Methods, sc \in ScopeFields }

AuthorizationRequests ==
    WellFormedAuthorizationRequests
        \cup { [r EXCEPT !.formErr = TRUE] :
                 r \in {q \in WellFormedAuthorizationRequests :
                          /\ q.code_challenge = <<>>
                          /\ q.code_challenge_method = <<>>
                          /\ q.scope = <<>>} }

\* the challenges a caller may have stored and the verifiers a client may send.
Verifiers == {Repeat("a", n) : n \in Lengths} \cup {Repeat("b", 50)}

Challenges == Verifiers \cup {s256Challenge(Repeat("a", 50)), s256Challenge(Repeat("b", 50))}

StoredRequests ==
    { [RedirectURI |-> ru, ClientID |-> cid, State |-> <<>>, Scopes |-> <<>>,
       CodeChallenge |-> cc, CodeChallengeMethod |-> m] :
        cid \in {Https \o ExampleCom \o <<"/">>, Https \o ExampleOrg \o <<"/">>},
        ru \in {Https \o ExampleCom \o <<"/", "callback">>,
                Https \o ExampleCom \o <<"/", "callback", "1">>},
        cc \in Challenges, m \in Methods }

ExchangeRequests ==
    { [formErr |-> fe, grant_type |-> gt, client_id |-> cid, redirect_uri |-> ru,
       code_verifier |-> v] :
        fe \in {FALSE},
        gt \in {<<>>, <<"authorization_code">>, <<"client_credentials">>,
                <<"refresh_token">>, <<"AUTHORIZATION_CODE">>},
        cid \in {Https \o ExampleCom \o <<"/">>, Https \o ExampleOrg \o <<"/">>},
        ru \in {Https \o ExampleCom \o <<"/", "callback">>,
                Https \o ExampleCom \o <<"/", "callback", "1">>},
        v \in Verifiers }
        \cup { [formErr |-> TRUE, grant_type |-> <<>>, client_id |-> <<>>,
                redirect_uri |-> <<>>, code_verifier |-> <<>>] }

\* the URLs handed to the validators: every combination of the parts below.
URLSchemes ==
    {Https, <<"http", ":", "/", "/">>, <<"HTTPS", ":", "/", "/">>, <<"mailto", ":">>, <<>>}

URLUserinfos == {<<>>, <<"user", ":", "pass", "@">>, <<"user", "@">>, <<"@">>}

URLHosts ==
    {ExampleCom, <<"localhost">>, NonLoopback, Loopback, <<"[", ":", ":", "1", "]">>,
     <<"[", "1", ":", ":", "a", "]">>, <<"256", ".", "0", ".", "0", ".", "1">>, <<>>}

URLPorts == {<<>>, <<":", "8443">>, <<":">>}

URLPaths ==
    {<<>>, <<"/">>, <<"/", "user">>, <<"/", "foo", ".", "bar">>,
     <<"/", "foo", "/", ".", ".", "/", "bar">>}

URLQueries == {<<>>, <<"?", "foo", "=", "bar">>}

URLFragments == {<<>>, <<"#", "me">>}

URLs ==
    { sch \o ui \o h \o po \o pa \o q \o f :
        sch \in URLSchemes, ui \in URLUserinfos, h \in URLHosts, po \in URLPorts,
        pa \in URLPaths, q \in URLQueries, f \in URLFragments }

\* the strings handed to CanonicalizeURL: every combination of the parts below.
CanonPrefixes ==
    {<<>>, Https, <<"http", ":", "/", "/">>, <<"HTTPS", ":", "/", "/">>, <<"mailto", ":">>}

CanonUserinfos ==
    {<<>>, <<"user", ":", "pass", "@">>, <<"user", "@", "foo", "@">>,
     <<"user", ":", "pass", ":", "foo", "@">>, <<"ain", "'", "t", "@">>, <<"@">>}

CanonHosts == {ExampleCom, <<"foo", " ", "bar">>, <<"[", ":", ":", "1", "]">>, <<>>}

CanonPorts == {<<>>, <<":", "8443">>, <<":">>, <<":", "foo">>}

CanonPaths ==
    {<<>>, <<"/">>, <<"/", "foo", " ", "bar">>, <<"/", "ain", "'", "t">>,
     <<"/", "foo", "%20", "bar">>, <<"/", "foo", BadEscape>>, <<"/", "foo", "/", ".", ".", "/", "bar">>}

CanonQueries == {<<>>, <<"?">>, <<"?", "foo", "=", "bar">>}

CanonFragments == {<<>>, <<"#">>, <<"#", "me">>, <<"#", "foo", " ", "bar">>}

CanonInputs ==
    { pre \o ui \o h \o po \o pa \o q \o f :
        pre \in CanonPrefixes, ui \in CanonUserinfos, h \in CanonHosts, po \in CanonPorts,
        pa \in CanonPaths, q \in CanonQueries, f \in CanonFragments }
      \cup {NotAURL, <<"foo", " ", "bar", ":", "foo">>}

\* the random source: streams of SourceLen bytes, and a source that fails.
SourceLen == 130

MaxSeed == 2

RandomSources ==
    { [bytes |-> [i \in 1..SourceLen |-> (step * i + first) % 256], err |-> <<>>] :
        step \in 0..MaxSeed, first \in {0, 97, 255} }
        \cup { [bytes |-> <<>>, err |-> <<Anonymous("crypto/rand: read failed")>>] }

NoMetadata ==
    [Issuer |-> <<>>, AuthorizationEndpoint |-> <<>>, TokenEndpoint |-> <<>>,
     RevocationEndpoint |-> <<>>]

\* what DiscoverMetadata returns to Authenticate.
Discovered ==
    { [metadata |-> <<[NoMetadata EXCEPT !.Issuer = iss,
                                         !.AuthorizationEndpoint = Https \o ExampleOrg \o <<"/", "auth">>,
                                         !.TokenEndpoint = tok]>>,
       err |-> <<>>] :
        iss \in {<<>>, Https \o ExampleOrg \o <<"/">>},
        tok \in {<<>>, Https \o ExampleOrg \o <<"/", "token">>} }
        \cup { [metadata |-> <<>>, err |-> <<Anonymous("no endpoint found")>>] }

AuthenticateCalls ==
    { [profile |-> Https \o ExampleCom \o <<"/">>, scope |-> <<"profile">>,
       discovered |-> d, sources |-> <<s1, s2>>] :
        d \in Discovered, s1 \in RandomSources, s2 \in RandomSources }

\* the strings ValidateCodeChallenge is called with: the verifiers above, one
\* in capitals, verifiers as newVerifier makes them, and S256 challenges.
MadeVerifiers == {newVerifier(source).value : source \in {r \in RandomSources : r.err = <<>>}}

PKCEStrings ==
    Verifiers \cup {Repeat("A", 50)} \cup MadeVerifiers
        \cup {s256Challenge(Repeat("a", 50)), s256Challenge(Repeat("a", 43))}

ValidateCodeChallengeCalls ==
    { [ccm |-> m, cc |-> cc, ver |-> v] :
        m \in {<<"plain">>, <<"S256">>, <<>>, <<"s256">>},
        cc \in PKCEStrings, v \in PKCEStrings }

S256Exchanges == { [verifier |-> v, ver |-> w] : v \in PKCEStrings, w \in PKCEStrings }

CallbackCodes == {<<>>, << <<<<"code">>, <<>>>> >>, << <<<<"code">>, <<"abc">>>> >>}

CallbackIssuers ==
    {<<>>, << <<<<"iss">>, <<>>>> >>,
     << <<<<"iss">>, Https \o ExampleOrg \o <<"/">>>> >>,
     << <<<<"iss">>, Https \o ExampleCom \o <<"/">>>> >>}

CallbackStates ==
    {<<>>, << <<<<"state">>, <<>>>> >>,
     << <<<<"state">>, <<"state">>>> >>,
     << <<<<"state">>, <<"other", " ", "state">>>> >>,
     << <<<<"state">>, <<"state">>>>, <<<<"state">>, <<"other", " ", "state">>>> >>,
     << <<<<"state">>, <<"other", " ", "state">>>>, <<<<"state">>, <<"state">>>> >>}

\* the parameters of the callback, and the request that carries them.
Callbacks ==
    { [params |-> c \o i \o st, r |-> [RawQuery |-> Encode(c \o i \o st)]] :
        c \in CallbackCodes, i \in CallbackIssuers, st \in CallbackStates }

AuthInfos ==
    { [Metadata |-> [NoMetadata EXCEPT !.Issuer = iss], Me |-> Https \o ExampleCom \o <<"/">>,
       State |-> st, CodeVerifier |-> <<>>] :
        iss \in {<<>>, Https \o ExampleOrg \o <<"/">>, Https \o ExampleCom \o <<"/">>},
        st \in {<<>>, <<"state">>, <<"other", " ", "state">>} }

\* what the transport may answer to a request.
NoJSON == [valid |-> FALSE, value |-> <<>>]

TransportError ==
    [err |-> <<Anonymous("connection refused")>>, StatusCode |-> 0, Links |-> <<>>,
     Body |-> <<>>, BodyErr |-> <<>>, JSON |-> NoJSON]

\* context.Canceled, and the answer of c.Client.Do once the context of the
\* call is cancelled: the request is aborted with that error.
ContextCanceled == New("context.Canceled", "context canceled")

Cancelled ==
    [err |-> <<ContextCanceled>>, StatusCode |-> 0, Links |-> <<>>,
     Body |-> <<>>, BodyErr |-> <<>>, JSON |-> NoJSON]

\* a cancelled context stays cancelled: every request after the first
\* aborted one is aborted too.
StaysCancelled(answers) ==
    \A k \in 1..Len(answers) :
        answers[k] = Cancelled => \A j \in k..Len(answers) : answers[j] = Cancelled

Response(status, links, body, json) ==
    [err |-> <<>>, StatusCode |-> status, Links |-> links, Body |-> body,
     BodyErr |-> <<>>, JSON |-> json]

Link(href, rel) == [Href |-> href, Rel |-> <<rel>>]

Element(tag, href, rel) == [tag |-> tag, href |-> <<href>>, rel |-> <<rel>>]

ProfileURL == Https \o ExampleOrg \o <<"/">>

HeaderLinks ==
    {<<>>,
     <<Link(<<"/", "auth">>, AuthorizationEndpointRel)>>,
     <<Link(Https \o ExampleCom \o <<"/", "auth">>, AuthorizationEndpointRel)>>,
     <<Link(<<"/", "token">>, TokenEndpointRel)>>,
     <<Link(<<"/", "auth">>, AuthorizationEndpointRel),
       Link(<<"/", "token">>, TokenEndpointRel)>>}

Bodies ==
    {<<>>,
     <<Element("link", <<"/", "html", "/", "auth">>, AuthorizationEndpointRel)>>,
     <<Element("meta", <<"/", "me">>, TokenEndpointRel),
       Element("a", <<"html", "/", ".", ".", "/", "token">>, <<"me", " ">> \o TokenEndpointRel)>>,
     <<Element("link", <<BadEscape>>, AuthorizationEndpointRel)>>}

EndpointAnswers ==
    {TransportError, Response(404, <<>>, <<>>, NoJSON)}
        \cup {Response(200, l, b, NoJSON) : l \in HeaderLinks, b \in Bodies}

\* responses handed to extractEndpoints: up to two Link values and up to two
\* elements, some naming a relation twice, and a body that cannot be read.
ExtractLinks ==
    {Link(<<"/", "auth">>, AuthorizationEndpointRel),
     Link(<<"/", "other">>, AuthorizationEndpointRel),
     Link(<<"/", "token">>, TokenEndpointRel),
     [Href |-> <<"/", "both">>, Rel |-> <<TokenEndpointRel, AuthorizationEndpointRel>>]}

ExtractElements ==
    {Element("link", <<"/", "html", "/", "auth">>, AuthorizationEndpointRel),
     Element("a", <<"/", "a", "/", "auth">>, <<"me", " ">> \o AuthorizationEndpointRel),
     Element("link", <<"/", "html", "/", "token">>, TokenEndpointRel),
     Element("meta", <<"/", "me">>, TokenEndpointRel)}

UpToTwo(S) == {<<>>} \cup {<<x>> : x \in S} \cup {<<x, y>> : x \in S, y \in S}

ReadError == Anonymous("unexpected EOF")

ExtractEndpointsCalls ==
    { [resp |-> [Response(200, l, b, NoJSON) EXCEPT !.BodyErr = e],
       rels |-> <<AuthorizationEndpointRel, TokenEndpointRel>>] :
        l \in UpToTwo(ExtractLinks), b \in UpToTwo(ExtractElements),
        e \in {<<>>, <<ReadError>>} }

\* the URLs discovery is asked for: the profile, and a string url.Parse rejects.
DiscoveredURLs == {ProfileURL, <<":", "foo">>}

DiscoverEndpointsCalls ==
    { [urlStr |-> u, rels |-> <<AuthorizationEndpointRel, TokenEndpointRel>>,
       answers |-> a] :
        u \in DiscoveredURLs,
        a \in {b \in [1..2 -> EndpointAnswers \cup {Cancelled}] : StaysCancelled(b)} }

MetadataDocument ==
    [NoMetadata EXCEPT !.Issuer = ProfileURL,
                       !.AuthorizationEndpoint = Https \o ExampleOrg \o <<"/", "auth">>,
                       !.TokenEndpoint = Https \o ExampleOrg \o <<"/", "token">>]

MetadataAnswers ==
    {TransportError,
     Response(200, <<Link(<<"/", "metadata">>, IndieAuthMetadataRel)>>, <<>>,
              [valid |-> TRUE, value |-> <<MetadataDocument>>]),
     Response(200, <<Link(<<"/", "auth">>, AuthorizationEndpointRel)>>, <<>>,
              [valid |-> TRUE, value |-> <<>>]),
     Response(200, <<>>, <<Element("a", <<"/", "token">>, TokenEndpointRel)>>,
              [valid |-> TRUE, value |-> <<[MetadataDocument EXCEPT !.AuthorizationEndpoint = <<>>]>>]),
     Response(200, <<>>, <<>>, NoJSON),
     Response(404, <<Link(<<"/", "auth">>, AuthorizationEndpointRel),
                     Link(<<"/", "token">>, TokenEndpointRel)>>, <<>>, NoJSON)}

\* the most requests one call of DiscoverMetadata makes.
MaxRequests == 5

DiscoverMetadataCalls ==
    { [urlStr |-> ProfileURL, answers |-> a] :
        a \in {b \in [1..MaxRequests -> MetadataAnswers \cup {Cancelled}] :
                    StaysCancelled(b)} }

\* Micropub requests: form-encoded and JSON bodies, well-formed or not,
\* creating (h, type) or naming an action, known or not, with or without url.
PostURL == "https://example.org/1"

ActionNames == {ActionCreate, ActionUpdate, ActionDelete, ActionUndelete, "other"}

FormRequests ==
    { [json |-> FALSE, malformed |-> m, h |-> h, type |-> <<>>, action |-> a, url |-> u] :
        m \in BOOLEAN, h \in {"", "entry"},
        a \in {<<>>, <<"">>} \cup {<<n>> : n \in ActionNames}, u \in {"", PostURL} }

JSONRequests ==
    { [json |-> TRUE, malformed |-> m, h |-> "", type |-> t, action |-> a, url |-> u] :
        m \in BOOLEAN,
        t \in {<<>>, << <<>> >>, << << <<"h-", "entry">> >> >>,
               << << <<"h-", "entry">>, <<"h-", "card">> >> >>},
        a \in {<<>>} \cup {<<n>> : n \in ActionNames}, u \in {"", PostURL} }

MicropubScopes == {"create", "update", "delete", "undelete"}

\* the implementations: the scopes granted, and the answer of the method
\* that changes posts.
Implementations ==
    { [granted |-> g, err |-> e, location |-> PostURL] :
        g \in SUBSET MicropubScopes,
        e \in {<<>>, <<ErrNotFound>>, <<ErrBadRequest>>, <<ErrNotImplemented>>,
               <<Anonymous("magic error")>>} }

\* round trips: clients whose redirect URL is on the host of the client
\* identifier or not, servers with and without RequirePKCE, the random
\* sources of the client, and the verifier an exchange carries.
RoundTripClients ==
    { NewClient(id, ru) :
        id \in {Https \o ExampleCom \o <<"/">>, Https \o ExampleOrg \o <<"/", "me">>,
                Https \o ExampleCom},
        ru \in {Https \o ExampleCom \o <<"/", "callback">>,
                Https \o ExampleOrg \o <<"/", "callback", "?", "foo">>} }

RoundTripCalls ==
    { [profile |-> Https \o ExampleOrg \o <<"/">>, scope |-> <<"profile", " ", "me">>,
       discovered |-> [metadata |-> <<[NoMetadata EXCEPT
                                         !.AuthorizationEndpoint = Https \o ExampleOrg \o <<"/", "auth">>]>>,
                       err |-> <<>>],
       sources |-> <<s1, s2>>, code |-> <<"abc">>] :
        s1 \in RandomSources, s2 \in RandomSources }

OtherVerifiers == MadeVerifiers \cup {Repeat("a", 50), <<>>}

\* authorization requests with every challenge length and method, from a
\* client whose redirect URL is on its host and from one where it is not.
ChallengedRequests ==
    { [formErr |-> FALSE, response_type |-> <<"code">>, client_id |-> cid,
       redirect_uri |-> Https \o ExampleCom \o <<"/", "callback">>,
       state |-> <<"abc123">>, code_challenge |-> Repeat("a", n),
       code_challenge_method |-> m, scope |-> <<>>, scopes |-> <<>>] :
        cid \in {Https \o ExampleCom \o <<"/">>, Https \o ExampleOrg \o <<"/">>},
        n \in Lengths, m \in Methods }

\* the example server: the codes randomString may return, the handlers that
\* run at the same time, the instants of the clock, the form the user
\* accepts and the exchange requests presented.
Codes == {"c1", "c2"}

NumHandlers == 2

Handlers == 1..NumHandlers

Accepter == 0

Clock == {0, AuthorizationExpiry, AuthorizationExpiry + 1}

AcceptedForm ==
    [formErr |-> FALSE, response_type |-> <<"code">>,
     client_id |-> Https \o ExampleCom \o <<"/">>,
     redirect_uri |-> Https \o ExampleCom \o <<"/", "callback">>,
     state |-> <<"abc123">>, code_challenge |-> s256Challenge(Repeat("a", 50)),
     code_challenge_method |-> <<"S256">>, scope |-> <<"profile">>, scopes |-> <<>>]

CodeExchanges ==
    { [formErr |-> FALSE, code |-> cv[1], grant_type |-> <<"authorization_code">>,
       client_id |-> Https \o ExampleCom \o <<"/">>,
       redirect_uri |-> Https \o ExampleCom \o <<"/", "callback">>,
       code_verifier |-> cv[2]] :
        cv \in {<<"c1", Repeat("a", 50)>>, <<"c1", Repeat("b", 50)>>,
                <<"c2", Repeat("a", 50)>>} }
        \cup { [formErr |-> TRUE, code |-> "", grant_type |-> <<>>, client_id |-> <<>>,
                redirect_uri |-> <<>>, code_verifier |-> <<>>] }

(***************************************************************************)
(* The callers: one call of the operation on the drawn input.              *)
(***************************************************************************)
\* CanonicalizeURL on a string, then once more on what it returned: stored
\* holds the first result, ret the second.
InitCanon ==
    /\ pc = "call"
    /\ op = "CanonicalizeURL"
    /\ srv = <<>>
    /\ arg \in CanonInputs
    /\ stored = <<>>
    /\ ret = <<>>

DoCanonicalizeURL ==
    /\ pc = "call"
    /\ op = "CanonicalizeURL"
    /\ stored' = <<CanonicalizeURL(arg)>>
    /\ pc' = "once"
    /\ UNCHANGED <<op, srv, arg, ret>>

DoCanonicalizeAgain ==
    /\ pc = "once"
    /\ op = "CanonicalizeURL"
    /\ ret' = <<CanonicalizeURL(stored[1])>>
    /\ pc' = "done"
    /\ UNCHANGED <<op, srv, arg, stored>>

NextCanon == DoCanonicalizeURL \/ DoCanonicalizeAgain

SpecCanon == InitCanon /\ [][NextCanon]_vars

\* newVerifier, then s256Challenge of the verifier it made (stored holds the
\* challenge); or one call of Authenticate.
InitAuthenticate ==
    /\ pc = "call"
    /\ \/ /\ op = "newVerifier"
          /\ srv = <<>>
          /\ arg \in RandomSources
       \/ /\ op = "Authenticate"
          /\ srv = NewClient(Https \o ExampleCom \o <<"/">>,
                             Https \o ExampleCom \o <<"/", "callback">>)
          /\ arg \in AuthenticateCalls
    /\ stored = <<>>
    /\ ret = <<>>

DoNewVerifier ==
    /\ pc = "call"
    /\ op = "newVerifier"
    /\ ret' = newVerifier(arg)
    /\ pc' = IF ret'.err = <<>> THEN "made" ELSE "done"
    /\ UNCHANGED <<op, srv, arg, stored>>

DoS256Challenge ==
    /\ pc = "made"
    /\ op = "newVerifier"
    /\ stored' = <<s256Challenge(ret.value)>>
    /\ pc' = "done"
    /\ UNCHANGED <<op, srv, arg, ret>>

DoAuthenticate ==
    /\ pc = "call"
    /\ op = "Authenticate"
    /\ ret' = Authenticate(srv, arg.profile, arg.scope, arg.discovered, arg.sources)
    /\ pc' = "done"
    /\ UNCHANGED <<op, srv, arg, stored>>

NextAuthenticate == DoNewVerifier \/ DoS256Challenge \/ DoAuthenticate

SpecAuthenticate == InitAuthenticate /\ [][NextAuthenticate]_vars

\* one call of ValidateCodeChallenge; or s256Challenge of a verifier (stored
\* holds the challenge) and then ValidateCodeChallenge of that challenge
\* against a verifier.
InitChallenge ==
    /\ pc = "call"
    /\ \/ op = "ValidateCodeChallenge" /\ arg \in ValidateCodeChallengeCalls
       \/ op = "S256" /\ arg \in S256Exchanges
    /\ srv = <<>>
    /\ stored = <<>>
    /\ ret = <<>>

DoValidateCodeChallenge ==
    /\ pc = "call"
    /\ op = "ValidateCodeChallenge"
    /\ ret' = [ok |-> ValidateCodeChallenge(arg.ccm, arg.cc, arg.ver)]
    /\ pc' = "done"
    /\ UNCHANGED <<op, srv, arg, stored>>

DoChallenge ==
    /\ pc = "call"
    /\ op = "S256"
    /\ stored' = <<s256Challenge(arg.verifier)>>
    /\ pc' = "made"
    /\ UNCHANGED <<op, srv, arg, ret>>

DoValidateChallenge ==
    /\ pc = "made"
    /\ op = "S256"
    /\ ret' = [ok |-> ValidateCodeChallenge(<<"S256">>, stored[1], arg.ver)]
    /\ pc' = "done"
    /\ UNCHANGED <<op, srv, arg, stored>>

NextChallenge == DoValidateCodeChallenge \/ DoChallenge \/ DoValidateChallenge

SpecChallenge == InitChallenge /\ [][NextChallenge]_vars

\* one call of ValidateCallback: stored holds the AuthInfo the caller kept.
InitCallback ==
    /\ pc = "call"
    /\ op = "ValidateCallback"
    /\ srv = NewClient(Https \o ExampleCom \o <<"/">>,
                       Https \o ExampleCom \o <<"/", "callback">>)
    /\ arg \in Callbacks
    /\ stored \in {<<i>> : i \in AuthInfos}
    /\ ret = <<>>

DoValidateCallback ==
    /\ pc = "call"
    /\ op = "ValidateCallback"
    /\ ret' = ValidateCallback(stored[1], arg.r)
    /\ pc' = "done"
    /\ UNCHANGED <<op, srv, arg, stored>>

NextCallback == DoValidateCallback

SpecCallback == InitCallback /\ [][NextCallback]_vars

\* one call of discoverEndpoints or of DiscoverMetadata on a transport that
\* has no request behind it.
InitDiscover ==
    /\ pc = "call"
    /\ \/ op = "discoverEndpoints" /\ arg \in DiscoverEndpointsCalls
       \/ op = "extractEndpoints" /\ arg \in ExtractEndpointsCalls
       \/ op = "DiscoverMetadata" /\ arg \in DiscoverMetadataCalls
    /\ srv = NewClient(Https \o ExampleCom \o <<"/">>,
                       Https \o ExampleCom \o <<"/", "redirect">>)
    /\ stored = <<>>
    /\ ret = <<>>

DoDiscoverEndpoints ==
    /\ pc = "call"
    /\ op = "discoverEndpoints"
    /\ ret' = discoverEndpoints([answers |-> arg.answers, log |-> <<>>], arg.urlStr, arg.rels)
    /\ pc' = "done"
    /\ UNCHANGED <<op, srv, arg, stored>>

DoDiscoverMetadata ==
    /\ pc = "call"
    /\ op = "DiscoverMetadata"
    /\ ret' = DiscoverMetadata([answers |-> arg.answers, log |-> <<>>], arg.urlStr)
    /\ pc' = "done"
    /\ UNCHANGED <<op, srv, arg, stored>>

DoExtractEndpoints ==
    /\ pc = "call"
    /\ op = "extractEndpoints"
    /\ ret' = extractEndpoints(arg.resp, arg.rels)
    /\ pc' = "done"
    /\ UNCHANGED <<op, srv, arg, stored>>

NextDiscover == DoDiscoverEndpoints \/ DoDiscoverMetadata \/ DoExtractEndpoints

SpecDiscover == InitDiscover /\ [][NextDiscover]_vars

InitURL ==
    /\ pc = "call"
    /\ op \in {"IsValidProfileURL", "IsValidClientIdentifier"}
    /\ srv = <<>>
    /\ arg \in URLs
    /\ stored = <<>>
    /\ ret = <<>>

DoIsValidProfileURL ==
    /\ pc = "call"
    /\ op = "IsValidProfileURL"
    /\ ret' = [err |-> IsValidProfileURL(arg)]
    /\ pc' = "done"
    /\ UNCHANGED <<op, srv, arg, stored>>

DoIsValidClientIdentifier ==
    /\ pc = "call"
    /\ op = "IsValidClientIdentifier"
    /\ ret' = [err |-> IsValidClientIdentifier(arg)]
    /\ pc' = "done"
    /\ UNCHANGED <<op, srv, arg, stored>>

NextURL == DoIsValidProfileURL \/ DoIsValidClientIdentifier

SpecURL == InitURL /\ [][NextURL]_vars

InitParse ==
    /\ pc = "call"
    /\ op = "ParseAuthorization"
    /\ srv \in {NewServer(b) : b \in BOOLEAN}
    /\ arg \in AuthorizationRequests
    /\ stored = <<>>
    /\ ret = <<>>

DoParseAuthorization ==
    /\ pc = "call"
    /\ op = "ParseAuthorization"
    /\ ret' = ParseAuthorization(srv, arg)
    /\ pc' = "done"
    /\ UNCHANGED <<op, srv, arg, stored>>

NextParse == DoParseAuthorization

SpecParse == InitParse /\ [][NextParse]_vars

InitExchange ==
    /\ pc = "call"
    /\ op = "ValidateTokenExchange"
    /\ srv \in {NewServer(b) : b \in BOOLEAN}
    /\ arg \in ExchangeRequests
    /\ stored \in {<<a>> : a \in StoredRequests}
    /\ ret = <<>>

DoValidateTokenExchange ==
    /\ pc = "call"
    /\ op = "ValidateTokenExchange"
    /\ ret' = [err |-> ValidateTokenExchange(srv, stored[1], arg)]
    /\ pc' = "done"
    /\ UNCHANGED <<op, srv, arg, stored>>

NextExchange == DoValidateTokenExchange

SpecExchange == InitExchange /\ [][NextExchange]_vars

\* a POST request served by the Micropub handler of an implementation.
InitMicropub ==
    /\ pc = "call"
    /\ op = "micropubPost"
    /\ srv \in Implementations
    /\ arg \in FormRequests \cup JSONRequests
    /\ stored = <<>>
    /\ ret = <<>>

DoMicropubPost ==
    /\ pc = "call"
    /\ op = "micropubPost"
    /\ ret' = micropubPost(srv, arg)
    /\ pc' = "done"
    /\ UNCHANGED <<op, srv, arg, stored>>

NextMicropub == DoMicropubPost

SpecMicropub == InitMicropub /\ [][NextMicropub]_vars

\* the round trip of one sign-in: the client's Authenticate, the server's
\* ParseAuthorization of the request made with the URL (stored holds the
\* AuthInfo of the client and the request the server keeps), then one
\* exchange: that of the client's FetchProfile, or one differing from it in
\* the verifier.
InitRoundTrip ==
    /\ pc = "call"
    /\ op = "RoundTrip"
    /\ srv \in { [client |-> c, server |-> NewServer(p)] :
                   c \in RoundTripClients, p \in BOOLEAN }
    /\ arg \in RoundTripCalls
    /\ stored = <<>>
    /\ ret = <<>>

RoundTripAuthenticate ==
    /\ pc = "call"
    /\ op = "RoundTrip"
    /\ ret' = Authenticate(srv.client, arg.profile, arg.scope, arg.discovered, arg.sources)
    /\ pc' = IF ret'.err = <<>> THEN "redirected" ELSE "done"
    /\ stored' = IF ret'.err = <<>> THEN [info |-> ret'.info[1], authURL |-> ret'.authURL[1]]
                 ELSE stored
    /\ UNCHANGED <<op, srv, arg>>

RoundTripParseAuthorization ==
    /\ pc = "redirected"
    /\ op = "RoundTrip"
    /\ ret' = ParseAuthorization(srv.server, AuthorizationRequest(stored.authURL))
    /\ pc' = IF ret'.err = <<>> THEN "authorized" ELSE "done"
    /\ stored' = IF ret'.err = <<>>
                 THEN [info |-> stored.info, authURL |-> stored.authURL, req |-> ret'.req[1]]
                 ELSE stored
    /\ UNCHANGED <<op, srv, arg>>

RoundTripFetchProfile ==
    /\ pc = "authorized"
    /\ op = "RoundTrip"
    /\ ret' = [verifier |-> stored.info.CodeVerifier,
               err |-> ValidateTokenExchange(srv.server, stored.req,
                           FetchProfileRequest(srv.client, stored.info, arg.code))]
    /\ pc' = "done"
    /\ UNCHANGED <<op, srv, arg, stored>>

RoundTripOtherVerifier ==
    /\ pc = "authorized"
    /\ op = "RoundTrip"
    /\ \E v \in OtherVerifiers \ {stored.info.CodeVerifier} :
          ret' = [verifier |-> v,
                  err |-> ValidateTokenExchange(srv.server, stored.req,
                              FetchProfileRequest(srv.client,
                                  [stored.info EXCEPT !.CodeVerifier = v], arg.code))]
    /\ pc' = "done"
    /\ UNCHANGED <<op, srv, arg, stored>>

NextRoundTrip ==
    \/ RoundTripAuthenticate
    \/ RoundTripParseAuthorization
    \/ RoundTripFetchProfile
    \/ RoundTripOtherVerifier

SpecRoundTrip == InitRoundTrip /\ [][NextRoundTrip]_vars

\* ParseAuthorization, the caller keeping the request it returned (stored),
\* and then ValidateTokenExchange of an exchange request against it, on the
\* same server.
InitStored ==
    /\ pc = "call"
    /\ op = "Stored"
    /\ srv \in {NewServer(b) : b \in BOOLEAN}
    /\ arg \in ChallengedRequests
    /\ stored = <<>>
    /\ ret = <<>>

StoredParseAuthorization ==
    /\ pc = "call"
    /\ op = "Stored"
    /\ ret' = ParseAuthorization(srv, arg)
    /\ stored' = ret'.req
    /\ pc' = IF ret'.err = <<>> THEN "stored" ELSE "done"
    /\ UNCHANGED <<op, srv, arg>>

StoredValidateTokenExchange ==
    /\ pc = "stored"
    /\ op = "Stored"
    /\ \E e \in ExchangeRequests :
          ret' = [request |-> e, err |-> ValidateTokenExchange(srv, stored[1], e)]
    /\ pc' = "done"
    /\ UNCHANGED <<op, srv, arg, stored>>

NextStored == StoredParseAuthorization \/ StoredValidateTokenExchange

SpecStored == InitStored /\ [][NextStored]_vars

\* the example server under concurrent requests.  Process 0 serves
\* authorizationAcceptHandler, once per code; the processes of Handlers each
\* serve one authorizationCodeExchange.  srv is the server (the map
\* authorizations, the holder of authorizationsMu, the clock, the codes
\* randomString has returned); pc, arg, stored and ret hold, per process,
\* its position, its request, its local variables and its response.
InitServer ==
    /\ op = "examples/server"
    /\ pc = [p \in {Accepter} \cup Handlers |-> IF p = Accepter THEN "accept" ELSE "start"]
    /\ srv = [authorizations |-> [c \in Codes |-> <<>>], authorizationsMu |-> <<>>,
              now |-> 0, issued |-> {}, ias |-> NewServer(TRUE)]
    /\ arg \in [{Accepter} \cup Handlers -> CodeExchanges \cup {AcceptedForm}]
    /\ arg[Accepter] = AcceptedForm
    /\ \A p \in Handlers : arg[p] \in CodeExchanges
    /\ stored = [p \in {Accepter} \cup Handlers |-> [t |-> <<>>, got |-> <<>>, code |-> ""]]
    /\ ret = [p \in {Accepter} \cup Handlers |-> <<>>]

\* authorizationAcceptHandler up to the call of storeAuthorization.
AcceptParseAuthorization ==
    /\ pc[Accepter] = "accept"
    /\ srv.issued # Codes
    /\ IF ParseAuthorization(srv.ias, arg[Accepter]).err # <<>>
       THEN /\ ret' = [ret EXCEPT ![Accepter] =
                          InvalidRequest(ParseAuthorization(srv.ias, arg[Accepter]).err[1].msg)]
            /\ pc' = [pc EXCEPT ![Accepter] = "done"]
            /\ UNCHANGED stored
       ELSE /\ stored' = [stored EXCEPT ![Accepter].t =
                             ParseAuthorization(srv.ias, arg[Accepter]).req]
            /\ pc' = [pc EXCEPT ![Accepter] = "lock"]
            /\ UNCHANGED ret
    /\ UNCHANGED <<op, srv, arg>>

\* storeAuthorization: s.authorizationsMu.Lock()
StoreAuthorizationLock ==
    /\ pc[Accepter] = "lock"
    /\ CanLock(srv.authorizationsMu)
    /\ srv' = [srv EXCEPT !.authorizationsMu = <<Accepter>>]
    /\ pc' = [pc EXCEPT ![Accepter] = "store"]
    /\ UNCHANGED <<op, arg, stored, ret>>

\* storeAuthorization: a code randomString has not returned before, and
\* the entry of the map.
StoreAuthorizationStore ==
    /\ pc[Accepter] = "store"
    /\ \E code \in Codes \ srv.issued :
          /\ srv' = [srv EXCEPT !.authorizations[code] =
                                    <<[req |-> stored[Accepter].t[1], time |-> srv.now]>>,
                                !.issued = srv.issued \cup {code}]
          /\ stored' = [stored EXCEPT ![Accepter].code = code]
    /\ pc' = [pc EXCEPT ![Accepter] = "unlock"]
    /\ UNCHANGED <<op, arg, ret>>

\* storeAuthorization: the deferred Unlock; then the redirect to the client.
StoreAuthorizationUnlock ==
    /\ pc[Accepter] = "unlock"
    /\ srv' = [srv EXCEPT !.authorizationsMu = <<>>]
    /\ ret' = [ret EXCEPT ![Accepter] = [StatusCode |-> 302, code |-> stored[Accepter].code]]
    /\ pc' = [pc EXCEPT ![Accepter] = "accept"]
    /\ UNCHANGED <<op, arg, stored>>

\* authorizationCodeExchange: r.ParseForm()
ExchangeParseForm ==
    \E p \in Handlers :
        /\ pc[p] = "start"
        /\ IF arg[p].formErr
           THEN /\ ret' = [ret EXCEPT ![p] = InvalidRequest(ErrParseForm.msg)]
                /\ pc' = [pc EXCEPT ![p] = "done"]
           ELSE /\ ret' = ret
                /\ pc' = [pc EXCEPT ![p] = "lock"]
        /\ stored' = [stored EXCEPT ![p].code = arg[p].code]
        /\ UNCHANGED <<op, srv, arg>>

\* getAuthorization: s.authorizationsMu.Lock()
GetAuthorizationLock ==
    \E p \in Handlers :
        /\ pc[p] = "lock"
        /\ CanLock(srv.authorizationsMu)
        /\ srv' = [srv EXCEPT !.authorizationsMu = <<p>>]
        /\ pc' = [pc EXCEPT ![p] = "lookup"]
        /\ UNCHANGED <<op, arg, stored, ret>>

\* getAuthorization: t, ok := s.authorizations[code]
GetAuthorizationLookup ==
    \E p \in Handlers :
        /\ pc[p] = "lookup"
        /\ stored' = [stored EXCEPT ![p].t = srv.authorizations[stored[p].code]]
        /\ pc' = [pc EXCEPT ![p] = IF srv.authorizations[stored[p].code] = <<>>
                                   THEN "unlock" ELSE "delete"]
        /\ UNCHANGED <<op, srv, arg, ret>>

\* getAuthorization: delete(s.authorizations, code), then t.isExpired()
GetAuthorizationDelete ==
    \E p \in Handlers :
        /\ pc[p] = "delete"
        /\ srv' = [srv EXCEPT !.authorizations[stored[p].code] = <<>>]
        /\ stored' = [stored EXCEPT ![p].got =
                         IF isExpired(stored[p].t[1], srv.now) THEN <<>> ELSE stored[p].t]
        /\ pc' = [pc EXCEPT ![p] = "unlock"]
        /\ UNCHANGED <<op, arg, ret>>

\* getAuthorization: the deferred Unlock; then, in authorizationCodeExchange,
\* the answer to a nil authorization.
GetAuthorizationUnlock ==
    \E p \in Handlers :
        /\ pc[p] = "unlock"
        /\ srv' = [srv EXCEPT !.authorizationsMu = <<>>]
        /\ IF stored[p].got = <<>>
           THEN /\ ret' = [ret EXCEPT ![p] = InvalidRequest("invalid authorization")]
                /\ pc' = [pc EXCEPT ![p] = "done"]
           ELSE /\ ret' = ret
                /\ pc' = [pc EXCEPT ![p] = "validate"]
        /\ UNCHANGED <<op, arg, stored>>

\* authorizationCodeExchange: s.ias.ValidateTokenExchange and the response.
ExchangeValidateTokenExchange ==
    \E p \in Handlers :
        /\ pc[p] = "validate"
        /\ ret' = [ret EXCEPT ![p] =
                      exchangeResponse(ValidateTokenExchange(
                          srv.ias, rebuiltRequest(stored[p].got[1].req), arg[p]))]
        /\ pc' = [pc EXCEPT ![p] = "done"]
        /\ UNCHANGED <<op, srv, arg, stored>>

\* time passes.
Tick ==
    /\ \E t \in Clock : t > srv.now /\ srv' = [srv EXCEPT !.now = t]
    /\ UNCHANGED <<pc, op, arg, stored, ret>>

NextServer ==
    \/ AcceptParseAuthorization
    \/ StoreAuthorizationLock
    \/ StoreAuthorizationStore
    \/ StoreAuthorizationUnlock
    \/ ExchangeParseForm
    \/ GetAuthorizationLock
    \/ GetAuthorizationLookup
    \/ GetAuthorizationDelete
    \/ GetAuthorizationUnlock
    \/ ExchangeValidateTokenExchange
    \/ Tick

SpecServer == InitServer /\ [][NextServer]_vars

(***************************************************************************)
(* Properties of ValidateTokenExchange (checked under SpecExchange).       *)
(***************************************************************************)
Exchanged == pc = "done" /\ op = "ValidateTokenExchange"

InRange(x) == Len(x) >= MinCodeLength /\ Len(x) <= MaxCodeLength

\* RFC 7636, section 4.6: what it means for a verifier to match a challenge.
ChallengeMatches(m, cc, v) ==
    \/ m = <<"plain">> /\ cc = v
    \/ m = <<"S256">> /\ cc = EncodeToString(Sum256(v))

GrantTypeOK == arg.grant_type \in {<<>>, <<"authorization_code">>}

\* the form parses and the grant_type, client_id and redirect_uri checks pass.
ExchangeHeadOK ==
    /\ ~arg.formErr
    /\ GrantTypeOK
    /\ arg.client_id = stored[1].ClientID
    /\ arg.redirect_uri = stored[1].RedirectURI

\* C1: with a stored non-empty CodeChallenge, ValidateTokenExchange succeeds
\* only if the inbound code_verifier matches the stored challenge under the
\* stored method, and when all earlier checks pass and it does not match the
\* result is ErrCodeChallengeFailed; a stored plain challenge of 50 'a'
\* succeeds with 50 'a' and fails with ErrCodeChallengeFailed with 51 'a'.
C1_ChallengeDecidesExchange ==
    (Exchanged /\ stored[1].CodeChallenge # <<>>) =>
        LET cc == stored[1].CodeChallenge
            m == stored[1].CodeChallengeMethod
            v == arg.code_verifier
        IN  /\ ret.err = <<>> => ChallengeMatches(m, cc, v)
            /\ ( /\ ExchangeHeadOK
                 /\ InRange(v) /\ InRange(cc)
                 /\ m \in {<<"plain">>, <<"S256">>}
                 /\ ~ChallengeMatches(m, cc, v) ) => ret.err = <<ErrCodeChallengeFailed>>
            /\ (ExchangeHeadOK /\ m = <<"plain">> /\ cc = Repeat("a", 50)) =>
                   /\ v = Repeat("a", 50) => ret.err = <<>>
                   /\ v = Repeat("a", 51) => Is(ret.err, ErrCodeChallengeFailed)

C1_Witness ==
    /\ Exchanged
    /\ ExchangeHeadOK
    /\ stored[1].CodeChallenge = Repeat("a", 50)
    /\ stored[1].CodeChallengeMethod = <<"plain">>
    /\ arg.code_verifier = Repeat("a", 51)
    /\ Is(ret.err, ErrCodeChallengeFailed)

\* the sentinel TestValidateTokenExchange expects for a code_verifier of the
\* wrong length; server.go declares no such error.
ErrWrongCodeVerifierLength ==
    New("ErrWrongCodeVerifierLength",
        "code_verifier length must be between 43 and 128 characters long")

\* C2: ValidateTokenExchange returns the error of the first failing check in
\* the order grant_type (InvalidGrantType), client_id (NoMatchClientID),
\* redirect_uri (NoMatchRedirectURI) and, when a challenge is stored,
\* code_verifier length (WrongCodeVerifierLength), stored challenge length
\* (WrongCodeChallengeLength), stored method (InvalidCodeChallengeMethod),
\* comparison (CodeChallengeFailed).
C2_FirstFailingExchangeCheck ==
    (Exchanged /\ ~arg.formErr) =>
        LET cc == stored[1].CodeChallenge
            m == stored[1].CodeChallengeMethod
            v == arg.code_verifier
        IN  IF ~GrantTypeOK THEN Is(ret.err, ErrInvalidGrantType)
            ELSE IF arg.client_id # stored[1].ClientID THEN Is(ret.err, ErrNoMatchClientID)
            ELSE IF arg.redirect_uri # stored[1].RedirectURI
            THEN Is(ret.err, ErrNoMatchRedirectURI)
            ELSE IF cc = <<>> THEN TRUE
            ELSE IF ~InRange(v) THEN Is(ret.err, ErrWrongCodeVerifierLength)
            ELSE IF ~InRange(cc) THEN Is(ret.err, ErrWrongCodeChallengeLenght)
            ELSE IF m \notin {<<"plain">>, <<"S256">>}
            THEN Is(ret.err, ErrInvalidCodeChallengeMethod)
            ELSE IF ~ChallengeMatches(m, cc, v) THEN Is(ret.err, ErrCodeChallengeFailed)
            ELSE ret.err = <<>>

\* C3: with an empty stored CodeChallenge and the grant_type, client_id and
\* redirect_uri checks passing, ValidateTokenExchange fails with
\* ErrPKCERequired when RequirePKCE is set and otherwise succeeds, whatever
\* the inbound code_verifier is.
C3_NoStoredChallenge ==
    (Exchanged /\ ExchangeHeadOK /\ stored[1].CodeChallenge = <<>>) =>
        IF srv.RequirePKCE THEN ret.err = <<ErrPKCERequired>> ELSE ret.err = <<>>

C3_Witness ==
    /\ Exchanged
    /\ ExchangeHeadOK
    /\ stored[1].CodeChallenge = <<>>
    /\ ~srv.RequirePKCE
    /\ arg.code_verifier = Repeat("a", 10)
    /\ ret.err = <<>>

\* C9: an absent grant_type is treated exactly as "authorization_code" (same
\* result for every stored request and every other inbound field), and every
\* other grant_type value fails with ErrInvalidGrantType.
C9_GrantTypeDefault ==
    Exchanged =>
        /\ arg.grant_type = <<>> =>
               ret.err = ValidateTokenExchange(srv, stored[1],
                             [arg EXCEPT !.grant_type = <<"authorization_code">>])
        /\ (~arg.formErr /\ ~GrantTypeOK) => ret.err = <<ErrInvalidGrantType>>

C9_Witness ==
    /\ Exchanged
    /\ arg.grant_type = <<>>
    /\ stored[1].CodeChallenge # <<>>
    /\ ret.err = <<>>

(***************************************************************************)
(* Properties of ParseAuthorization (checked under SpecParse).             *)
(***************************************************************************)
Parsed == pc = "done" /\ op = "ParseAuthorization"

\* the sentinels an error matches.
Kinds(err) == IF err = <<>> THEN {} ELSE err[1].is

ResponseTypeOK == arg.response_type \in {<<>>, <<"code">>}

ClientIDOK == IsValidClientIdentifier(arg.client_id) = <<>>

\* both URLs parse and the host of redirect_uri is the host of client_id.
HostsMatch ==
    /\ Parse(arg.client_id).err = <<>>
    /\ Parse(arg.redirect_uri).err = <<>>
    /\ Parse(arg.redirect_uri).url.Host = Parse(arg.client_id).url.Host

\* the form parses and the response_type, client_id and redirect_uri checks pass.
ParseHeadOK == ~arg.formErr /\ ResponseTypeOK /\ ClientIDOK /\ HostsMatch

MethodOK == arg.code_challenge_method \in {<<"plain">>, <<"S256">>}

\* C4: a request without code_challenge that is otherwise valid fails with
\* ErrPKCERequired (and no request) when RequirePKCE is set, and succeeds
\* with an empty CodeChallenge when it is not.
C4_PKCERequiredOnlyWhenConfigured ==
    (Parsed /\ ParseHeadOK /\ arg.code_challenge = <<>>) =>
        IF srv.RequirePKCE
        THEN ret.err = <<ErrPKCERequired>> /\ ret.req = <<>>
        ELSE /\ ret.err = <<>>
             /\ ret.req # <<>>
             /\ ret.req[1].CodeChallenge = <<>>

C4_Witness ==
    /\ Parsed
    /\ ParseHeadOK
    /\ arg.code_challenge = <<>>
    /\ srv.RequirePKCE
    /\ Is(ret.err, ErrPKCERequired)

\* C5: when the earlier checks pass, a non-empty code_challenge is accepted
\* exactly when 43 <= len <= 128 and the method is "plain" or "S256"; a
\* length outside the range gives ErrWrongCodeChallengeLenght, a length inside
\* it with another method gives ErrInvalidCodeChallengeMethod; the result is
\* the same under either RequirePKCE; on success CodeChallenge and
\* CodeChallengeMethod are the received values.
C5_ChallengeLengthAndMethod ==
    (Parsed /\ ParseHeadOK /\ arg.code_challenge # <<>>) =>
        LET L == Len(arg.code_challenge)
            inside == MinCodeLength <= L /\ L <= MaxCodeLength
        IN  /\ ret.err = <<>> <=> (inside /\ MethodOK)
            /\ ~inside => ret.err = <<ErrWrongCodeChallengeLenght>>
            /\ (inside /\ ~MethodOK) => ret.err = <<ErrInvalidCodeChallengeMethod>>
            /\ ret = ParseAuthorization(NewServer(~srv.RequirePKCE), arg)
            /\ ret.err = <<>> =>
                   /\ ret.req # <<>>
                   /\ ret.req[1].CodeChallenge = arg.code_challenge
                   /\ ret.req[1].CodeChallengeMethod = arg.code_challenge_method
            /\ ret.err # <<>> => ret.req = <<>>

C5_Witness ==
    /\ Parsed
    /\ ParseHeadOK
    /\ Len(arg.code_challenge) = MaxCodeLength
    /\ arg.code_challenge_method = <<"S256">>
    /\ srv.RequirePKCE
    /\ ret.err = <<>>
    /\ ret.req[1].CodeChallenge = Repeat("a", MaxCodeLength)

\* the sentinel TestParseAuthorization expects for a redirect_uri whose host
\* is not the host of client_id; server.go declares no such error.
ErrInvalidRedirectURI == New("ErrInvalidRedirectURI", "invalid redirect uri")

\* C6: ParseAuthorization succeeds only if the parsed host of redirect_uri
\* equals the parsed host of client_id; when it does not (the earlier checks
\* passing) the call fails with an error of kind ErrInvalidRedirectURI and
\* returns no request.
C6_RedirectHostMustMatch ==
    Parsed =>
        /\ ret.err = <<>> => HostsMatch
        /\ (~arg.formErr /\ ResponseTypeOK /\ ClientIDOK /\ ~HostsMatch) =>
               Is(ret.err, ErrInvalidRedirectURI) /\ ret.req = <<>>

\* C7: ParseAuthorization returns the error of the first failing check, in
\* the order response_type (ErrInvalidResponseType), client_id validity (an
\* error that is ErrInvalidClientIdentifier), redirect_uri host match,
\* code_challenge length, code_challenge_method, PKCE required; so
\* response_type=token with an invalid client_id gives
\* ErrInvalidResponseType; and every failing call returns no request.
C7_FirstFailingParseCheck ==
    Parsed =>
        /\ ret.err # <<>> => ret.req = <<>>
        /\ ~arg.formErr =>
            LET cc == arg.code_challenge
                Later == {"ErrWrongCodeChallengeLenght", "ErrInvalidCodeChallengeMethod",
                          "ErrPKCERequired"}
            IN  IF ~ResponseTypeOK THEN Kinds(ret.err) = {"ErrInvalidResponseType"}
                ELSE IF ~ClientIDOK
                THEN /\ Is(ret.err, ErrInvalidClientIdentifier)
                     /\ Kinds(ret.err) \cap (Later \cup {"ErrInvalidResponseType"}) = {}
                ELSE IF ~HostsMatch
                THEN /\ ret.err # <<>>
                     /\ Kinds(ret.err) \cap
                            (Later \cup {"ErrInvalidResponseType",
                                         "ErrInvalidClientIdentifier"}) = {}
                ELSE IF cc # <<>> /\ ~InRange(cc)
                THEN Kinds(ret.err) = {"ErrWrongCodeChallengeLenght"}
                ELSE IF cc # <<>> /\ ~MethodOK
                THEN Kinds(ret.err) = {"ErrInvalidCodeChallengeMethod"}
                ELSE IF cc = <<>> /\ srv.RequirePKCE
                THEN Kinds(ret.err) = {"ErrPKCERequired"}
                ELSE ret.err = <<>>

C7_Witness ==
    /\ Parsed
    /\ arg.response_type = <<"token">>
    /\ ~ClientIDOK
    /\ ~HostsMatch
    /\ Is(ret.err, ErrInvalidResponseType)
    /\ ret.req = <<>>

\* C8: a request with response_type omitted gets exactly the result (the
\* same error or the same AuthenticationRequest) of the request that differs
\* from it only in carrying response_type=code, under either RequirePKCE.
C8_ResponseTypeDefault ==
    (Parsed /\ arg.response_type = <<>>) =>
        ret = ParseAuthorization(srv, [arg EXCEPT !.response_type = <<"code">>])

C8_Witness ==
    /\ Parsed
    /\ arg.response_type = <<>>
    /\ ret.err = <<>>
    /\ ret.req[1].ClientID = Https \o ExampleCom \o <<"/">>

(***************************************************************************)
(* Properties of the validators (checked under SpecURL).                   *)
(***************************************************************************)
ProfileValidated == pc = "done" /\ op = "IsValidProfileURL"

\* the host of a URL without its port and without the brackets of an IPv6
\* literal.
HostName(url) ==
    LET colon == LastIndex(url.Host, ":")
        h == IF colon # 0 /\ validOptionalPort(From(url.Host, colon))
             THEN Upto(url.Host, colon - 1)
             ELSE url.Host
    IN  IF Len(h) >= 2 /\ h[1] = "[" /\ h[Len(h)] = "]"
        THEN SubSeq(h, 2, Len(h) - 1)
        ELSE h

\* the host is an IP address written out (IPv4, or IPv6 in brackets).
HostIsLiteralIP(url) == ParseIP(HostName(url)) # <<>>

\* the rule an error reports, the wrapping ErrInvalidProfileURL set aside.
Rule(err) == Kinds(err) \ {"ErrInvalidProfileURL"}

\* C10: IsValidProfileURL checks, in this order, the scheme
\* (ErrInvalidScheme), that the path is not empty (ErrEmptyPath), that the
\* path has no '.' (ErrInvalidPath), that the fragment is empty
\* (ErrInvalidFragment), that no user or password is set (ErrUserIsSet),
\* that no port is set (ErrPortIsSet) and that the host is not a literal IP
\* (ErrIsIP); it returns the error of the first rule violated and nothing
\* else, and accepts a URL that violates none.
C10_FirstViolatedProfileRule ==
    (ProfileValidated /\ Parse(arg).err = <<>>) =>
        LET u == Parse(arg).url
        IN  IF u.Scheme \notin {<<"http">>, <<"https">>}
            THEN Rule(ret.err) = {"ErrInvalidScheme"}
            ELSE IF u.Path = <<>> THEN Rule(ret.err) = {"ErrEmptyPath"}
            ELSE IF Contains(u.Path, ".") THEN Rule(ret.err) = {"ErrInvalidPath"}
            ELSE IF u.Fragment # <<>> THEN Rule(ret.err) = {"ErrInvalidFragment"}
            ELSE IF UserString(u.User) # <<>> THEN Rule(ret.err) = {"ErrUserIsSet"}
            ELSE IF Port(u) # <<>> THEN Rule(ret.err) = {"ErrPortIsSet"}
            ELSE IF HostIsLiteralIP(u) THEN Rule(ret.err) = {"ErrIsIP"}
            ELSE ret.err = <<>>

\* the checks of IsValidProfileURL that come before the IP check all pass.
ProfileHeadOK(u) ==
    /\ u.Scheme \in {<<"http">>, <<"https">>}
    /\ u.Path # <<>>
    /\ ~Contains(u.Path, ".")
    /\ u.Fragment = <<>>
    /\ UserString(u.User) = <<>>
    /\ Port(u) = <<>>

\* C11: IsValidProfileURL rejects with ErrIsIP every URL that passes the
\* earlier checks and whose host is a literal IP address, IPv4 or bracketed
\* IPv6 alike; no URL with a literal IP host is accepted.
C11_LiteralIPHostRejected ==
    (ProfileValidated /\ Parse(arg).err = <<>> /\ HostIsLiteralIP(Parse(arg).url)) =>
        /\ ret.err # <<>>
        /\ ProfileHeadOK(Parse(arg).url) => Is(ret.err, ErrIsIP)

ClientIdentifierValidated == pc = "done" /\ op = "IsValidClientIdentifier"

\* the scheme, path, fragment and userinfo checks of IsValidClientIdentifier pass.
ClientHeadOK(u) ==
    /\ u.Scheme \in {<<"http">>, <<"https">>}
    /\ u.Path # <<>>
    /\ ~Contains(u.Path, ".")
    /\ u.Fragment = <<>>
    /\ UserString(u.User) = <<>>

\* the host is a literal IP address that is a loopback address.
HostIsLoopbackIP(u) == HostIsLiteralIP(u) /\ IsLoopback(ParseIP(HostName(u))[1])

\* C12: for an identifier that passes the scheme, path, fragment and userinfo
\* checks, IsValidClientIdentifier accepts a literal IP host (IPv4 or IPv6,
\* with or without a port) only when it is a loopback address and otherwise
\* fails with ErrIsNonLoopback, and accepts every host that is not an IP
\* address, with or without a port.
C12_OnlyLoopbackIPHosts ==
    (ClientIdentifierValidated /\ Parse(arg).err = <<>> /\ ClientHeadOK(Parse(arg).url)) =>
        IF HostIsLiteralIP(Parse(arg).url) /\ ~HostIsLoopbackIP(Parse(arg).url)
        THEN Is(ret.err, ErrIsNonLoopback)
        ELSE ret.err = <<>>

(***************************************************************************)
(* Properties of CanonicalizeURL (checked under SpecCanon).                *)
(***************************************************************************)
\* the string CanonicalizeURL parses: the input, with "https://" in front
\* unless it starts with "http://" or "https://".
Prefixed(u) ==
    IF HasPrefix(u, <<"http", ":", "/", "/">>) \/ HasPrefix(u, <<"https", ":", "/", "/">>)
    THEN u
    ELSE <<"https", ":", "/", "/">> \o u

\* C13: CanonicalizeURL is idempotent: applied to its own result it returns
\* that result, for inputs without a scheme prefix, inputs with an empty
\* path and inputs that do not parse alike.
C13_CanonicalizeIdempotent ==
    (op = "CanonicalizeURL" /\ pc = "done") => ret = stored

C13_Witness ==
    /\ op = "CanonicalizeURL"
    /\ pc = "done"
    /\ arg = ExampleCom
    /\ stored = <<Https \o ExampleCom \o <<"/">>>>
    /\ ret = stored

\* C14: when the string does not parse as a URL, CanonicalizeURL returns
\* the string the caller passed in, whether or not it began with http:// or
\* https://.
C14_UnparsableReturnedUnchanged ==
    (op = "CanonicalizeURL" /\ pc # "call" /\ Parse(Prefixed(arg)).err # <<>>) =>
        stored = <<arg>>

(***************************************************************************)
(* Claims about newVerifier, s256Challenge and Authenticate                *)
(* (SpecAuthenticate).                                                     *)
(***************************************************************************)
VerifierMade == op = "newVerifier" /\ pc # "call" /\ ret.err = <<>>

Authenticated == op = "Authenticate" /\ pc = "done" /\ ret.err = <<>>

\* C15: every verifier newVerifier returns without error has between 43 and
\* 128 characters, its S256 challenge has exactly 43, and so the CodeVerifier
\* of every AuthInfo Authenticate returns has between 43 and 128 characters.
C15_VerifierAndChallengeLengths ==
    /\ VerifierMade => Len(ret.value) \in MinCodeLength..MaxCodeLength
    /\ (VerifierMade /\ pc = "done") => Len(stored[1]) = 43
    /\ Authenticated =>
         /\ Len(ret.info[1].CodeVerifier) \in MinCodeLength..MaxCodeLength
         /\ Len(ret.authURL[1].code_challenge) = 43

C15_Witness ==
    /\ Authenticated
    /\ arg.sources[2].bytes[1] = 255
    /\ Len(ret.info[1].CodeVerifier) = 86
    /\ ret.info[1].CodeVerifier # ret.info[1].State

\* the URL and filename safe alphabet of RFC 4648, section 5, and the bytes
\* that a string over it stands for when read without padding.
URLSafeAlphabet ==
    <<"A", "B", "C", "D", "E", "F", "G", "H", "I", "J", "K", "L", "M",
      "N", "O", "P", "Q", "R", "S", "T", "U", "V", "W", "X", "Y", "Z",
      "a", "b", "c", "d", "e", "f", "g", "h", "i", "j", "k", "l", "m",
      "n", "o", "p", "q", "r", "s", "t", "u", "v", "w", "x", "y", "z",
      "0", "1", "2", "3", "4", "5", "6", "7", "8", "9", "-", "_">>

IsURLSafe(text) == \A k \in 1..Len(text) : Index(URLSafeAlphabet, text[k]) # 0

SextetAt(text, k) == IF k <= Len(text) THEN Index(URLSafeAlphabet, text[k]) - 1 ELSE 0

DecodedByte(text, j) ==
    ((SextetAt(text, ((8 * (j - 1)) \div 6) + 1) * 64
        + SextetAt(text, ((8 * (j - 1)) \div 6) + 2))
       \div (2 ^ (4 - ((8 * (j - 1)) % 6)))) % 256

Decoded(text) == [j \in 1..((6 * Len(text)) \div 8) |-> DecodedByte(text, j)]

\* C16 as stated: newVerifier produces a verifier of exactly 43 characters,
\* the unpadded URL-safe base64 encoding of 64 random bytes.
C16_VerifierHas43Characters ==
    VerifierMade =>
        /\ Len(ret.value) = 43
        /\ IsURLSafe(ret.value)
        /\ Decoded(ret.value) = Upto(arg.bytes, 64)

\* C16 as amended: newVerifier produces a verifier of exactly 86 characters,
\* the unpadded URL-safe base64 encoding of 64 random bytes.
C16_VerifierHas86Characters ==
    VerifierMade =>
        /\ Len(ret.value) = 86
        /\ IsURLSafe(ret.value)
        /\ Decoded(ret.value) = Upto(arg.bytes, 64)

C16_Witness ==
    /\ VerifierMade
    /\ arg.bytes[1] = 255 /\ arg.bytes[2] = 255
    /\ Len(ret.value) = 86
    /\ Upto(ret.value, 3) = <<"_", "_", "_">>

(***************************************************************************)
(* Claims about ValidateCodeChallenge (SpecChallenge).                     *)
(***************************************************************************)
\* C17: with method "plain" ValidateCodeChallenge returns true exactly when
\* challenge and verifier are the same string, whatever their length (the
\* empty string and lengths outside 43..128 included) and without folding.
C17_PlainIsStringEquality ==
    (op = "ValidateCodeChallenge" /\ pc = "done" /\ arg.ccm = <<"plain">>)
        => (ret.ok <=> arg.cc = arg.ver)

C17_Witness ==
    /\ op = "ValidateCodeChallenge" /\ pc = "done" /\ arg.ccm = <<"plain">>
    /\ arg.cc = <<>> /\ arg.ver = <<>>
    /\ ret.ok

\* C18: the S256 challenge of a verifier validates against that verifier,
\* and against no other verifier whose hash differs.
C18_S256RoundTrip ==
    (op = "S256" /\ pc = "done") =>
        /\ arg.ver = arg.verifier => ret.ok
        /\ (arg.ver # arg.verifier /\ Sum256(arg.ver) # Sum256(arg.verifier)) => ~ret.ok

C18_Witness ==
    /\ op = "S256" /\ pc = "done"
    /\ arg.verifier \in MadeVerifiers /\ arg.ver \in MadeVerifiers
    /\ arg.ver # arg.verifier
    /\ Sum256(arg.ver) # Sum256(arg.verifier)
    /\ ~ret.ok

(***************************************************************************)
(* Claims about Client.ValidateCallback (SpecCallback).                    *)
(***************************************************************************)
CallbackValidated == op = "ValidateCallback" /\ pc = "done"

\* the first value the callback carries for a key, "" when it carries none.
Sent(key) ==
    IF \E k \in 1..Len(arg.params) : arg.params[k][1] = key
    THEN arg.params[CHOOSE k \in 1..Len(arg.params) :
                        /\ arg.params[k][1] = key
                        /\ \A j \in 1..(k - 1) : arg.params[j][1] # key][2]
    ELSE <<>>

\* C19: ValidateCallback returns the code only if the callback's code is not
\* empty, its state is not empty and equals AuthInfo.State, and its iss equals
\* AuthInfo.Issuer; the checks fail in the order ErrCodeNotFound,
\* ErrStateNotFound, ErrInvalidState, ErrInvalidIssuer, and a failure returns
\* the empty code.
C19_CallbackChecksInOrder ==
    CallbackValidated =>
        /\ ret.err =
             (IF Sent(<<"code">>) = <<>> THEN <<ErrCodeNotFound>>
              ELSE IF Sent(<<"state">>) = <<>> THEN <<ErrStateNotFound>>
              ELSE IF Sent(<<"state">>) # stored[1].State THEN <<ErrInvalidState>>
              ELSE IF Sent(<<"iss">>) # stored[1].Metadata.Issuer THEN <<ErrInvalidIssuer>>
              ELSE <<>>)
        /\ ret.code = (IF ret.err = <<>> THEN Sent(<<"code">>) ELSE <<>>)
        /\ ret.err = <<>> =>
             /\ ret.code # <<>>
             /\ Sent(<<"state">>) # <<>>
             /\ Sent(<<"state">>) = stored[1].State

C19_Witness ==
    /\ CallbackValidated
    /\ Sent(<<"state">>) = <<"other", " ", "state">>
    /\ Len(arg.params) = 4
    /\ Sent(<<"iss">>) = Https \o ExampleOrg \o <<"/">>
    /\ ret = [code |-> <<"abc">>, err |-> <<>>]

(***************************************************************************)
(* Claims about discovery (SpecDiscover).                                  *)
(***************************************************************************)
EndpointsDiscovered == op = "discoverEndpoints" /\ pc = "done"

MetadataDiscovered == op = "DiscoverMetadata" /\ pc = "done"

\* what the HEAD request and the GET request of the call yielded.
HeadRequest ==
    discoverRequest([answers |-> arg.answers, log |-> <<>>], "HEAD", arg.urlStr, arg.rels)

GetRequest == discoverRequest(HeadRequest.conn, "GET", arg.urlStr, arg.rels)

YieldsAll(req) == req.err = <<>> /\ req.found

Finds(req, i) == req.err = <<>> /\ req.endpoints[i].err = <<>>

\* C20: when neither HEAD nor GET yields every relation (and not both fail),
\* discoverEndpoints merges per relation: the value of HEAD when HEAD found
\* it, else the value of GET, else ErrNoEndpointFound.  The legacy path of
\* DiscoverMetadata fails with ErrNoEndpointFound when the merged result has
\* no authorization_endpoint, and succeeds with an empty TokenEndpoint when
\* only token_endpoint is missing.
C20_PartialResultsMerged ==
    /\ (/\ EndpointsDiscovered
        /\ ~YieldsAll(HeadRequest) /\ ~YieldsAll(GetRequest)
        /\ ~(HeadRequest.err # <<>> /\ GetRequest.err # <<>>))
         => /\ ret.err = <<>>
            /\ \A i \in 1..Len(arg.rels) :
                 ret.endpoints[i] =
                    (IF Finds(HeadRequest, i) THEN HeadRequest.endpoints[i]
                     ELSE IF Finds(GetRequest, i) THEN GetRequest.endpoints[i]
                     ELSE [value |-> <<>>, err |-> <<ErrNoEndpointFound>>])
    /\ (MetadataDiscovered /\ ret.urls # <<>>)
         => /\ ret.urls[1][1].err # <<>>
                 => (ret.err = <<ErrNoEndpointFound>> /\ ret.metadata = <<>>)
            /\ (ret.urls[1][1].err = <<>> /\ ret.urls[1][2].err # <<>>)
                 => /\ ret.err = <<>>
                    /\ ret.metadata[1].AuthorizationEndpoint = ret.urls[1][1].value
                    /\ ret.metadata[1].TokenEndpoint = <<>>

\* HEAD and GET both found authorization_endpoint, with different values, and
\* only GET found token_endpoint.
C20_Witness ==
    /\ EndpointsDiscovered
    /\ Finds(HeadRequest, 1) /\ Finds(GetRequest, 1) /\ ~Finds(HeadRequest, 2)
    /\ HeadRequest.endpoints[1] # GetRequest.endpoints[1]
    /\ ~YieldsAll(GetRequest)
    /\ ret.endpoints[1].value = Https \o ExampleCom \o <<"/", "auth">>
    /\ ret.endpoints[2] = [value |-> <<>>, err |-> <<ErrNoEndpointFound>>]

\* C21: one call of discoverEndpoints makes its HEAD request before any GET
\* request, makes the GET request only if HEAD failed or did not yield every
\* relation, and makes at most one request of each kind.
C21_HeadThenAtMostOneGet ==
    EndpointsDiscovered =>
        /\ ret.conn.log \in {<<>>, << <<"HEAD", arg.urlStr>> >>,
                             << <<"HEAD", arg.urlStr>>, <<"GET", arg.urlStr>> >>}
        /\ (\E k \in 1..Len(ret.conn.log) : ret.conn.log[k][1] = "GET")
              => ~YieldsAll(HeadRequest)

C21_Witness ==
    /\ EndpointsDiscovered
    /\ YieldsAll(HeadRequest)
    /\ arg.answers[2].err = <<>> /\ arg.answers[2].StatusCode = 200
    /\ ret.conn.log = << <<"HEAD", ProfileURL>> >>

\* C22: discoverEndpoints returns an error, and no endpoints, exactly when
\* the HEAD request and the GET request both fail, and the error is that of
\* GET; when one of the two fails, the relations the other found are
\* returned without an error.
C22_FailsOnlyWhenBothFail ==
    EndpointsDiscovered =>
        /\ ret.err # <<>> <=> (HeadRequest.err # <<>> /\ GetRequest.err # <<>>)
        /\ ret.err # <<>> => (ret.err = GetRequest.err /\ ret.endpoints = <<>>)
        /\ (HeadRequest.err # <<>> /\ GetRequest.err = <<>>)
              => \A i \in 1..Len(arg.rels) :
                    ret.endpoints[i] = (IF Finds(GetRequest, i) THEN GetRequest.endpoints[i]
                                        ELSE [value |-> <<>>, err |-> <<ErrNoEndpointFound>>])
        /\ (HeadRequest.err = <<>> /\ ~YieldsAll(HeadRequest) /\ GetRequest.err # <<>>)
              => \A i \in 1..Len(arg.rels) :
                    ret.endpoints[i] = (IF Finds(HeadRequest, i) THEN HeadRequest.endpoints[i]
                                        ELSE [value |-> <<>>, err |-> <<ErrNoEndpointFound>>])

\* HEAD fails in the transport, GET with status 404: the error is that of GET.
C22_Witness ==
    /\ EndpointsDiscovered
    /\ arg.answers[1] = TransportError
    /\ arg.answers[2].err = <<>> /\ arg.answers[2].StatusCode = 404
    /\ ret.endpoints = <<>>
    /\ ret.err = <<Anonymous("response error")>>

EndpointsExtracted == pc = "done" /\ op = "extractEndpoints"

\* the Link values of the response that name relation i, by position.
InHeader(i) ==
    {k \in 1..Len(arg.resp.Links) :
        \E v \in 1..Len(arg.resp.Links[k].Rel) : arg.resp.Links[k].Rel[v] = arg.rels[i]}

\* the <link> and <a> elements of the body that name relation i, by position.
InBody(i) ==
    {k \in 1..Len(arg.resp.Body) :
        /\ arg.resp.Body[k].tag \in {"link", "a"}
        /\ arg.resp.Body[k].href # <<>> /\ arg.resp.Body[k].rel # <<>>
        /\ \E v \in 1..Len(Split(arg.resp.Body[k].rel[1], " ")) :
              Split(arg.resp.Body[k].rel[1], " ")[v] = arg.rels[i]}

Least(S) == CHOOSE k \in S : \A j \in S : k <= j

HeaderYieldsAll == \A i \in 1..Len(arg.rels) : InHeader(i) # {}

Structured == discoverMetadata([answers |-> arg.answers, log |-> <<>>], arg.urlStr)

Legacy(structured) ==
    discoverEndpoints(structured.conn, arg.urlStr,
                      <<AuthorizationEndpointRel, TokenEndpointRel>>)

StructuredFirst(structured) ==
    /\ Len(ret.conn.log) >= Len(structured.conn.log)
    /\ Upto(ret.conn.log, Len(structured.conn.log)) = structured.conn.log
    /\ structured.err = <<>> =>
          /\ ret.err = <<>>
          /\ ret.metadata = structured.metadata
          /\ ret.conn.log = structured.conn.log
    /\ (structured.err # <<>> /\ ret.err = <<>>) =>
          ret.metadata = <<[Issuer |-> <<>>,
                            AuthorizationEndpoint |-> Legacy(structured).endpoints[1].value,
                            TokenEndpoint |-> Legacy(structured).endpoints[2].value,
                            RevocationEndpoint |-> Legacy(structured).endpoints[2].value]>>

\* C24: DiscoverMetadata makes the requests of the structured discovery
\* first; when that succeeds its document is the result and no further
\* request is made; the legacy requests follow only a failed structured
\* attempt, and the Metadata then returned holds nothing but the endpoints
\* the legacy discovery found.
C24_StructuredThenLegacy == MetadataDiscovered => StructuredFirst(Structured)

\* the document is fetched with the second request while answers naming both
\* legacy relations are still waiting.
C24_Witness ==
    /\ MetadataDiscovered
    /\ ret.err = <<>>
    /\ ret.metadata = <<MetadataDocument>>
    /\ ret.conn.log = << <<"HEAD", ProfileURL>>,
                         <<"GET", Https \o ExampleOrg \o <<"/", "metadata">> >> >>
    /\ arg.answers[3].Links # <<>> /\ arg.answers[3].StatusCode = 200

DiscoveryDone == pc = "done" /\ op \in {"discoverEndpoints", "DiscoverMetadata"}

\* the requests of the call that were aborted by the cancellation, by
\* position in the request log.
Aborted == {k \in 1..Len(ret.conn.log) : arg.answers[k] = Cancelled}

\* C25: when a request of a discovery operation is aborted by the
\* cancellation of the caller's context, the operation returns the
\* cancellation error, and no request follows the aborted one.
C25_CancellationPropagated ==
    (DiscoveryDone /\ Aborted # {}) =>
        /\ Is(ret.err, ContextCanceled)
        /\ Len(ret.conn.log) = Least(Aborted)

\* C30: a DiscoverMetadata that returns no error returns a Metadata, and
\* one whose AuthorizationEndpoint is not empty, whether it comes from the
\* metadata document or from the legacy discovery.
C30_AuthorizationEndpointPresent ==
    (MetadataDiscovered /\ ret.err = <<>>) =>
        /\ ret.metadata # <<>>
        /\ ret.metadata[1].AuthorizationEndpoint # <<>>

(***************************************************************************)
(* Claims about the Micropub handler (SpecMicropub).                       *)
(***************************************************************************)
MicropubPosted == pc = "done" /\ op = "micropubPost"

\* the methods of the implementation that change posts, with their scopes.
ScopeOfMethod ==
    [m \in {"Create", "Update", "Delete", "Undelete"} |->
        CASE m = "Create" -> "create" [] m = "Update" -> "update"
          [] m = "Delete" -> "delete" [] m = "Undelete" -> "undelete"]

Changes(call) == call.method \in DOMAIN ScopeOfMethod

\* the action of the request when it parses, "" otherwise.
ParsedAction == IF ParseRequest(arg).err # <<>> THEN "" ELSE ParseRequest(arg).req[1].Action

\* C26: the handler calls Create, Update, Delete or Undelete only right
\* after HasScope was asked for the scope of that action and answered true;
\* when HasScope answers false the response is 403 insufficient_scope and
\* no method that changes posts is called; a parsed request with one of the
\* four actions always has HasScope asked for the scope of its action.
C26_ScopeCheckedBeforeChange ==
    MicropubPosted =>
        /\ \A k \in 1..Len(ret.calls) :
              Changes(ret.calls[k]) =>
                  /\ k > 1
                  /\ ret.calls[k - 1] =
                        [method |-> "HasScope", arg |-> ScopeOfMethod[ret.calls[k].method],
                         ok |-> TRUE]
                  /\ ScopeOfMethod[ret.calls[k].method] = ParsedAction
        /\ (\E k \in 1..Len(ret.calls) :
                ret.calls[k].method = "HasScope" /\ ~ret.calls[k].ok) =>
              /\ ret.StatusCode = 403
              /\ ret.error = "insufficient_scope"
              /\ \A k \in 1..Len(ret.calls) : ~Changes(ret.calls[k])
        /\ ParsedAction \in MicropubScopes =>
              /\ ret.calls # <<>>
              /\ ret.calls[1].method = "HasScope" /\ ret.calls[1].arg = ParsedAction
              /\ ParsedAction \in srv.granted => Len(ret.calls) = 2 /\ Changes(ret.calls[2])

\* a delete request whose implementation grants every scope but delete.
C26_Witness ==
    /\ MicropubPosted
    /\ ParsedAction = ActionDelete
    /\ srv.granted = MicropubScopes \ {"delete"}
    /\ ret.StatusCode = 403
    /\ ret.calls = <<[method |-> "HasScope", arg |-> "delete", ok |-> FALSE]>>

(***************************************************************************)
(* Claims about the round trip between client and server (SpecRoundTrip).  *)
(***************************************************************************)
RoundTrip == op = "RoundTrip"

\* the client identifier is valid and the redirect URL is on its host.
ClientRegistered ==
    /\ IsValidClientIdentifier(srv.client.ClientID) = <<>>
    /\ Parse(srv.client.ClientID).err = <<>>
    /\ Parse(srv.client.RedirectURL).err = <<>>
    /\ Parse(srv.client.ClientID).url.Host = Parse(srv.client.RedirectURL).url.Host

\* ParseAuthorization has answered the request made with the URL of Authenticate.
AuthorizationParsed ==
    /\ RoundTrip
    /\ \/ pc = "authorized"
       \/ pc = "done" /\ "req" \in DOMAIN ret

ExchangeValidated == RoundTrip /\ pc = "done" /\ "verifier" \in DOMAIN ret

\* C27: for a client with a valid identifier and a redirect URL on its
\* host, what Authenticate builds is accepted by ParseAuthorization, with
\* RequirePKCE or without, and stored as sent; the exchange of FetchProfile,
\* carrying the verifier of the AuthInfo, passes ValidateTokenExchange
\* against the stored request; the same exchange with another verifier
\* does not.
C27_RoundTripAccepted ==
    (RoundTrip /\ ClientRegistered) =>
        /\ AuthorizationParsed =>
              /\ pc = "authorized"
              /\ stored.req.ClientID = srv.client.ClientID
              /\ stored.req.RedirectURI = srv.client.RedirectURL
              /\ stored.req.State = stored.info.State
              /\ stored.req.CodeChallengeMethod = <<"S256">>
              /\ stored.req.CodeChallenge = s256Challenge(stored.info.CodeVerifier)
        /\ ExchangeValidated =>
              (ret.err = <<>> <=> ret.verifier = stored.info.CodeVerifier)

\* the exchange of FetchProfile has passed on a server that requires PKCE.
C27_Witness ==
    /\ ExchangeValidated
    /\ ClientRegistered
    /\ srv.server.RequirePKCE
    /\ ret.verifier = stored.info.CodeVerifier
    /\ ret.err = <<>>

(***************************************************************************)
(* Claims about the request ParseAuthorization returns and its later use   *)
(* by ValidateTokenExchange (SpecStored).                                   *)
(***************************************************************************)
RequestStored == op = "Stored" /\ stored # <<>>

StoredExchanged == RequestStored /\ pc = "done"

\* C28: a request ParseAuthorization returned has no challenge and no
\* method, which happens only without RequirePKCE, or a challenge of 43 to
\* 128 characters with the method plain or S256; a method sent without a
\* challenge is not kept; so ValidateTokenExchange on the same server never
\* answers such a request with ErrPKCERequired,
\* ErrWrongCodeChallengeLenght or ErrInvalidCodeChallengeMethod.
C28_StoredChallengeWellFormed ==
    /\ RequestStored =>
          /\ \/ /\ stored[1].CodeChallenge = <<>>
                /\ stored[1].CodeChallengeMethod = <<>>
                /\ ~srv.RequirePKCE
             \/ /\ Len(stored[1].CodeChallenge) \in 43..128
                /\ stored[1].CodeChallengeMethod \in {<<"plain">>, <<"S256">>}
          /\ arg.code_challenge = <<>> => stored[1].CodeChallengeMethod = <<>>
    /\ StoredExchanged =>
          Kinds(ret.err) \cap {"ErrPKCERequired", "ErrWrongCodeChallengeLenght",
                               "ErrInvalidCodeChallengeMethod"} = {}

\* a method was sent without a challenge; the request returned has neither,
\* and an exchange against it passes.
C28_Witness ==
    /\ StoredExchanged
    /\ arg.code_challenge = <<>> /\ arg.code_challenge_method = <<"S256">>
    /\ stored[1].CodeChallengeMethod = <<>>
    /\ ret.err = <<>>

(***************************************************************************)
(* Claims about the example server (SpecServer).                           *)
(***************************************************************************)
ExampleServer == op = "examples/server"

\* the handlers getAuthorization has given the authorization of the code.
Obtained(code) == {p \in Handlers : stored[p].code = code /\ stored[p].got # <<>>}

\* the handlers that have found the entry of the code in the map and are
\* past its deletion.
Consumed(code) ==
    {p \in Handlers : stored[p].code = code /\ stored[p].t # <<>>
                      /\ pc[p] \in {"unlock", "validate", "done"}}

\* C29: in the example server an authorization code is redeemed at most
\* once, however the requests interleave: at most one exchange obtains the
\* authorization stored for a code; once an exchange has taken the entry,
\* the code is gone from the map, whether the entry was expired or the
\* exchange fails afterwards; and a request that does not obtain the
\* authorization is answered 400, invalid authorization.
C29_CodeSingleUse ==
    ExampleServer =>
        /\ \A code \in Codes :
              /\ Cardinality(Obtained(code)) <= 1
              /\ Cardinality(Consumed(code)) <= 1
              /\ Consumed(code) # {} => srv.authorizations[code] = <<>>
        /\ \A p \in Handlers :
              (pc[p] = "done" /\ ~arg[p].formErr /\ stored[p].got = <<>>) =>
                  ret[p] = [StatusCode |-> 400, error_description |-> "invalid authorization"]
        /\ \A p \in Handlers :
              (pc[p] = "done" /\ ret[p].StatusCode = 200) => p \in Obtained(arg[p].code)

\* two requests present the code "c1": one redeems it, the other is
\* answered invalid authorization.
C29_Witness ==
    /\ ExampleServer
    /\ arg[1].code = "c1" /\ arg[2].code = "c1"
    /\ pc[1] = "done" /\ pc[2] = "done"
    /\ ret[1].StatusCode = 200
    /\ ret[2] = [StatusCode |-> 400, error_description |-> "invalid authorization"]

====
